---------------------------- MODULE Spec2Model ----------------------------
(***************************************************************************)
(* A model of the hipercam reduction pipeline.                             *)
(*                                                                         *)
(*  - SpecReduce : the frame loop of scripts/reduce.py::reduce (grouping   *)
(*                 of frames, dispatch to the processor, the three ways    *)
(*                 out of the loop and the post-loop flush).               *)
(*  - SpecExtract: scripts/reduce.py::extractFlux called once per frame    *)
(*                 after the apertures have been moved (aperture           *)
(*                 resizing, sky estimate, flux sum, flags, failures).     *)
(*                                                                         *)
(* Lengths and positions of the extraction model are integers in units of  *)
(* half an unbinned pixel, so that window edges (pixel centre -/+ 0.5) are  *)
(* exact.  Weights, sky levels and fluxes are fixed-point numbers in units  *)
(* of 1/100.                                                               *)
(***************************************************************************)
EXTENDS Integers, Sequences, FiniteSets, TLC

(***************************************************************************)
(* Bounds of the model                                                     *)
(***************************************************************************)
\* largest group size (rfile['general']['ngroup']) explored
MaxGroup == 3
\* largest number of objects the spool yields in one run
MaxYield == 7
\* largest value of the 'first' and 'last' command-line parameters
MaxFirst == 2
MaxLast == 3
\* largest maximum waiting time 'tmax', in units of 'twait'
MaxWait == 1
\* largest number of frames of one CCD handed to extractFlux
MaxFrames == 2

VARIABLES
    \* ---- reduce(): command-line / reduce-file parameters
    source,      \* 'hs', 'hl', 'us', 'ul' or 'hf'
    first,       \* first frame to reduce
    last,        \* last frame to reduce, 0 = carry on to the end
    twait,       \* time to wait between attempts
    tmx,         \* maximum time to wait
    ngroup,      \* rfile['general']['ngroup']
    headnf,      \* whether the frames of this run carry an NFRAME header
    \* ---- reduce(): loop state
    pc,          \* "loop": inside the for loop; "post": at line 571; "done"
    nf,          \* the enumerate() index of the next object of the spool
    nrecv,       \* number of frames (not None) the spool has yielded
    total_time,  \* time spent waiting for a new frame
    tzset,       \* whether the first-frame initialisation has been done
    pccds,       \* buffer of processed frames
    mccds,       \* buffer of raw frames
    nframes,     \* buffer of frame numbers
    dispatches,  \* the calls processor(pccds, mccds, nframes), in order
    log,         \* the calls logfile.write_results(results), in order
    \* ---- history of the run (not read by the program)
    arrived,     \* frames appended to the buffers, in order of arrival
    how,         \* the branch the last loop iteration took
    \* ---- extractFlux(): what it reads and writes
    rfile,       \* reduce-file parameters of the CCD (extraction, sky, warn)
    ccdaper,     \* rfile.aper[cnam]: the apertures, resized in place
    store,       \* running state: mfwhm, mbeta and per-aperture values
    wdata,       \* the window of the CCD that encloses the apertures
    epc,         \* "move": before moveApers; "extract"; "raised"
    frame,       \* the frame of the current turn of ccdproc's loop
    nproc,       \* number of frames handed to extractFlux so far
    eresults,    \* what the last call of extractFlux returned
    raised,      \* the exception the last call of extractFlux raised, or ""
    resized,     \* whether the last call re-sized the apertures
    res,         \* ccdproc's list 'res': one tuple of references per frame
    \* ---- a single call of a function of window.py or of the weight formula
    call,        \* the arguments of the call
    ret,         \* what the call returned
    cpc          \* "call": before the call; "done": after it

rvars == <<source, first, last, twait, tmx, ngroup, headnf, pc, nf, nrecv,
           total_time, tzset, pccds, mccds, nframes, dispatches, log,
           arrived, how>>

evars == <<rfile, ccdaper, store, wdata, frame, epc, nproc, eresults,
           raised, resized, res>>

pvars == <<call, ret, cpc>>

vars == <<rvars, evars, pvars>>

params == <<source, first, last, twait, tmx, ngroup, headnf>>

(***************************************************************************)
(* The two parts of the model run one at a time: the other part is idle    *)
(***************************************************************************)
\* the extraction variables while only reduce() runs
ExtractIdle ==
    /\ rfile = <<>> /\ ccdaper = <<>> /\ store = <<>> /\ wdata = <<>>
    /\ frame = <<>> /\ epc = "idle" /\ nproc = 0 /\ eresults = <<>> /\ raised = ""
    /\ resized = FALSE /\ res = <<>>

\* the variables of a single call while reduce() or the extraction runs
CallIdle == call = <<>> /\ ret = <<>> /\ cpc = "idle"

\* the variables of reduce() while only the extraction runs
ReduceIdle ==
    /\ source = "hf" /\ first = 1 /\ last = 0 /\ twait = 1 /\ tmx = 0
    /\ ngroup = 1 /\ headnf = FALSE /\ pc = "idle" /\ nf = 0 /\ nrecv = 0
    /\ total_time = 0 /\ tzset = FALSE /\ pccds = <<>> /\ mccds = <<>>
    /\ nframes = <<>> /\ dispatches = <<>> /\ log = <<>> /\ arrived = <<>>
    /\ how = "idle"

(***************************************************************************)
(* reduce(): helpers                                                       *)
(***************************************************************************)
Sources == {"hs", "hl", "us", "ul", "hf"}

\* source.endswith('s') or source.endswith('l')
server_or_local(src) == src \in {"hs", "us", "hl", "ul"}

\* a live (server) source is the only kind that yields "not yet available"
is_server(src) == src \in {"hs", "us"}

\* the object a live spool yields when no new frame is available yet
None == [id |-> 0, head |-> <<>>]

\* the k-th frame of the run: frames are numbered from 'first' in their header
SpoolFrame(k, frst, withnf) ==
    [id |-> k, head |-> IF withnf THEN [NFRAME |-> frst + k - 1] ELSE <<>>]

\* spooler.hang_about(mccd, twait, tmax, total_time)
\*   -> (give_up, try_again, total_time)
hang_about(mccd, tw, tmax, total) ==
    IF mccd.id = None.id
    THEN IF total + tw > tmax
         THEN [give_up |-> TRUE, try_again |-> FALSE, total_time |-> total]
         ELSE [give_up |-> FALSE, try_again |-> TRUE,
               total_time |-> total + tw]
    ELSE [give_up |-> FALSE, try_again |-> FALSE, total_time |-> 0]

\* the frame number of a frame: its NFRAME header, else the loop index + 1
FrameNumber(mccd, idx) ==
    IF "NFRAME" \in DOMAIN mccd.head THEN mccd.head.NFRAME ELSE idx + 1

\* 'if source != 'hf' and last and nframe > last'
BeyondLastOff(src, lst, nframe) == src # "hf" /\ lst # 0 /\ nframe > lst + 1
BeyondLast(src, lst, nframe) == src # "hf" /\ lst # 0 /\ nframe > lst

\* 'if len(pccds) == rfile['general']['ngroup']'
GroupFullLate(buf, grp) == Len(buf) = grp + 1
GroupFull(buf, grp) == Len(buf) = grp

\* 'if len(mccds):' the test guarding each flush of a partly filled group
NeedsFlushNever(buf) == FALSE
NeedsFlush(buf) == Len(buf) > 0

\* 'mccds = []' after the flush on give-up and on reaching the last frame
ResetOnBreakKept(buf) == buf
ResetOnBreak(buf) == <<>>

\* results = processor(pccds, mccds, nframes): what the processor was given
processor(p, m, n) == [pccds |-> p, mccds |-> m, nframes |-> n]

\* all frame numbers handed to the processor, in order of dispatch
RECURSIVE Flatten(_)
Flatten(ds) ==
    IF ds = <<>> THEN <<>>
    ELSE Flatten(SubSeq(ds, 1, Len(ds) - 1)) \o ds[Len(ds)].nframes

RECURSIVE FlattenIds(_)
FlattenIds(ds) ==
    IF ds = <<>> THEN <<>>
    ELSE FlattenIds(SubSeq(ds, 1, Len(ds) - 1)) \o ds[Len(ds)].mccds

(***************************************************************************)
(* reduce(): initial state, at the top of the frame loop                   *)
(***************************************************************************)
InitReduce ==
    /\ source \in Sources
    /\ ngroup \in 1..MaxGroup
    /\ headnf \in BOOLEAN
    /\ twait = 1
    /\ first \in 1..MaxFirst
    /\ last \in 0..MaxLast
    \* 'hf': first = 1, last = 0; else last = 0 or last >= first
    /\ IF server_or_local(source)
       THEN /\ (last = 0 \/ last >= first)
            /\ tmx \in 0..MaxWait
       ELSE first = 1 /\ last = 0 /\ tmx = 0
    /\ pc = "loop"
    /\ nf = 0
    /\ nrecv = 0
    /\ total_time = 0
    /\ tzset = FALSE
    /\ pccds = <<>>
    /\ mccds = <<>>
    /\ nframes = <<>>
    /\ dispatches = <<>>
    /\ log = <<>>
    /\ arrived = <<>>
    /\ how = "start"
    /\ ExtractIdle
    /\ CallIdle

(***************************************************************************)
(* reduce(): one action per path through an iteration of the frame loop    *)
(***************************************************************************)

\* the spool raises StopIteration: the for loop ends
SpoolExhausted ==
    /\ pc = "loop"
    /\ pc' = "post"
    /\ how' = "exhausted"
    /\ UNCHANGED <<params, nf, nrecv, total_time, tzset, pccds, mccds,
                   nframes, dispatches, log, arrived>>
    /\ UNCHANGED <<evars, pvars>>

\* the spool yields None and hang_about says give up: flush and break
PollGiveUp ==
    /\ pc = "loop"
    /\ nf < MaxYield
    /\ is_server(source)
    /\ LET h == hang_about(None, twait, tmx, total_time) IN
        /\ h.give_up
        /\ total_time' = h.total_time
        /\ IF NeedsFlush(mccds)
           THEN LET results == processor(pccds, mccds, nframes) IN
                /\ dispatches' = Append(dispatches, results)
                /\ log' = Append(log, results)
                /\ mccds' = ResetOnBreak(mccds)
           ELSE UNCHANGED <<dispatches, log, mccds>>
    /\ nf' = nf + 1
    /\ pc' = "post"
    /\ how' = "give_up"
    /\ UNCHANGED <<params, nrecv, tzset, pccds, nframes, arrived>>
    /\ UNCHANGED <<evars, pvars>>

\* the spool yields None and hang_about says try again: continue
PollTryAgain ==
    /\ pc = "loop"
    /\ nf < MaxYield
    /\ is_server(source)
    /\ LET h == hang_about(None, twait, tmx, total_time) IN
        /\ ~h.give_up
        /\ h.try_again
        /\ total_time' = h.total_time
    /\ nf' = nf + 1
    /\ how' = "try_again"
    /\ UNCHANGED <<params, pc, nrecv, tzset, pccds, mccds, nframes,
                   dispatches, log, arrived>>
    /\ UNCHANGED <<evars, pvars>>

\* the spool yields a frame whose number is beyond 'last': flush and break
FrameBeyondLast ==
    /\ pc = "loop"
    /\ nf < MaxYield
    /\ LET mccd == SpoolFrame(nrecv + 1, first, headnf)
           h == hang_about(mccd, twait, tmx, total_time)
           nframe == FrameNumber(mccd, nf)
       IN
        /\ BeyondLast(source, last, nframe)
        /\ total_time' = IF server_or_local(source)
                         THEN h.total_time ELSE total_time
        /\ IF NeedsFlush(mccds)
           THEN LET results == processor(pccds, mccds, nframes) IN
                /\ dispatches' = Append(dispatches, results)
                /\ log' = Append(log, results)
                /\ mccds' = ResetOnBreak(mccds)
           ELSE UNCHANGED <<dispatches, log, mccds>>
    /\ nf' = nf + 1
    /\ nrecv' = nrecv + 1
    /\ pc' = "post"
    /\ how' = "last"
    /\ UNCHANGED <<params, tzset, pccds, nframes, arrived>>
    /\ UNCHANGED <<evars, pvars>>

\* the first frame fails initial_checks: break before anything is buffered
FirstFrameNotOk ==
    /\ pc = "loop"
    /\ nf < MaxYield
    /\ ~tzset
    /\ LET mccd == SpoolFrame(nrecv + 1, first, headnf)
           h == hang_about(mccd, twait, tmx, total_time)
           nframe == FrameNumber(mccd, nf)
       IN
        /\ ~BeyondLast(source, last, nframe)
        /\ total_time' = IF server_or_local(source)
                         THEN h.total_time ELSE total_time
    /\ nf' = nf + 1
    /\ nrecv' = nrecv + 1
    /\ pc' = "post"
    /\ how' = "not_ok"
    /\ UNCHANGED <<params, tzset, pccds, mccds, nframes, dispatches, log,
                   arrived>>
    /\ UNCHANGED <<evars, pvars>>

\* the spool yields a frame that is calibrated and appended to the group;
\* a full group is dispatched and the buffers are reset
FrameAccumulate ==
    /\ pc = "loop"
    /\ nf < MaxYield
    /\ LET mccd == SpoolFrame(nrecv + 1, first, headnf)
           h == hang_about(mccd, twait, tmx, total_time)
           nframe == FrameNumber(mccd, nf)
           p == Append(pccds, mccd.id)
           m == Append(mccds, mccd.id)
           n == Append(nframes, nframe)
       IN
        /\ ~BeyondLast(source, last, nframe)
        /\ total_time' = IF server_or_local(source)
                         THEN h.total_time ELSE total_time
        /\ arrived' = Append(arrived, [id |-> mccd.id, nframe |-> nframe])
        /\ IF GroupFull(p, ngroup)
           THEN LET results == processor(p, m, n) IN
                /\ dispatches' = Append(dispatches, results)
                /\ log' = Append(log, results)
                /\ pccds' = <<>>
                /\ mccds' = <<>>
                /\ nframes' = <<>>
           ELSE /\ pccds' = p
                /\ mccds' = m
                /\ nframes' = n
                /\ UNCHANGED <<dispatches, log>>
    /\ tzset' = TRUE
    /\ nf' = nf + 1
    /\ nrecv' = nrecv + 1
    /\ how' = "frame"
    /\ UNCHANGED <<params, pc>>
    /\ UNCHANGED <<evars, pvars>>

\* out of the loop: finish processing any remaining frames
FinalFlush ==
    /\ pc = "post"
    /\ IF NeedsFlush(mccds)
       THEN LET results == processor(pccds, mccds, nframes) IN
            /\ dispatches' = Append(dispatches, results)
            /\ log' = Append(log, results)
       ELSE UNCHANGED <<dispatches, log>>
    /\ pc' = "done"
    /\ UNCHANGED <<params, nf, nrecv, total_time, tzset, pccds, mccds,
                   nframes, arrived, how>>
    /\ UNCHANGED <<evars, pvars>>

NextReduce ==
    \/ SpoolExhausted
    \/ PollGiveUp
    \/ PollTryAgain
    \/ FrameBeyondLast
    \/ FirstFrameNotOk
    \/ FrameAccumulate
    \/ FinalFlush


(***************************************************************************)
(* Numeric helpers                                                         *)
(***************************************************************************)
Max(a, b) == IF a >= b THEN a ELSE b
Min(a, b) == IF a <= b THEN a ELSE b

\* int(math.ceil(a/b)) for b > 0
CeilDiv(a, b) == -((-a) \div b)

\* the integer part of the square root of n
RECURSIVE IsqrtIn(_, _, _)
IsqrtIn(n, lo, hi) ==
    IF lo >= hi THEN lo
    ELSE LET mid == (lo + hi + 1) \div 2 IN
         IF mid * mid <= n THEN IsqrtIn(n, mid, hi)
         ELSE IsqrtIn(n, lo, mid - 1)
Isqrt(n) == IsqrtIn(n, 0, Min(n, 46340))

\* the sum of elements lo..hi of a sequence, by halves
RECURSIVE SumRange(_, _, _)
SumRange(f, lo, hi) ==
    IF lo > hi THEN 0
    ELSE IF lo = hi THEN f[lo]
    ELSE LET mid == (lo + hi) \div 2 IN
         SumRange(f, lo, mid) + SumRange(f, mid + 1, hi)

\* the sum of the first n elements of a sequence
SumSeq(f, n) == SumRange(f, 1, n)

\* the largest of elements lo..hi of a sequence selected by sel (0 if none)
RECURSIVE MaxRange(_, _, _, _)
MaxRange(f, sel, lo, hi) ==
    IF lo > hi THEN 0
    ELSE IF lo = hi THEN (IF sel[lo] THEN f[lo] ELSE 0)
    ELSE LET mid == (lo + hi) \div 2 IN
         Max(MaxRange(f, sel, lo, mid), MaxRange(f, sel, mid + 1, hi))

\* the largest of the first n elements of a sequence selected by sel
MaxSel(f, sel, n) == MaxRange(f, sel, 1, n)

\* the number of elements selected by sel
Count(sel) == SumSeq([p \in DOMAIN sel |-> IF sel[p] THEN 1 ELSE 0], Len(sel))

(***************************************************************************)
(* window.py: Window and Windat.  A Window is [llx, lly, nx, ny, xbin,     *)
(* ybin] in pixels; its edges are given in half pixels.  A Windat is a     *)
(* Window with data, the rows of the array one after the other.            *)
(***************************************************************************)
Win_xlo(w) == 2 * w.llx - 1
Win_xhi(w) == 2 * (w.llx - 1 + w.nx * w.xbin) + 1
Win_ylo(w) == 2 * w.lly - 1
Win_yhi(w) == 2 * (w.lly - 1 + w.ny * w.ybin) + 1

\* Window.x(xpix), Window.y(ypix): centre of a binned pixel, in half pixels
Win_x(w, xpix) == 2 * w.llx + w.xbin * (2 * xpix + 1) - 1
Win_y(w, ypix) == 2 * w.lly + w.ybin * (2 * ypix + 1) - 1

\* Window.urx, Window.ury: the upper-right unbinned pixel
Win_urx(w) == w.llx - 1 + w.nx * w.xbin
Win_ury(w) == w.lly - 1 + w.ny * w.ybin

\* Window.extent(): (xlo, xhi, ylo, yhi), in half pixels
Window_extentCentres(w) ==
    <<2 * w.llx, 2 * Win_urx(w), 2 * w.lly, 2 * Win_ury(w)>>
Window_extent(w) == <<Win_xlo(w), Win_xhi(w), Win_ylo(w), Win_yhi(w)>>

\* Window.outside(win)
Window_outsideCoarse(self, win) ==
    /\ win.xbin % self.xbin = 0 /\ win.ybin % self.ybin = 0
    /\ self.llx <= win.llx /\ Win_urx(self) >= Win_urx(win)
    /\ self.lly <= win.lly /\ Win_ury(self) >= Win_ury(win)
    /\ (win.llx - self.llx) % win.xbin = 0
    /\ (win.lly - self.lly) % win.ybin = 0
Window_outside(self, win) ==
    /\ win.xbin % self.xbin = 0 /\ win.ybin % self.ybin = 0
    /\ self.llx <= win.llx /\ Win_urx(self) >= Win_urx(win)
    /\ self.lly <= win.lly /\ Win_ury(self) >= Win_ury(win)
    /\ (win.llx - self.llx) % self.xbin = 0
    /\ (win.lly - self.lly) % self.ybin = 0

\* Window.inside(win)
Window_insideNoStep(self, win) ==
    /\ self.xbin % win.xbin = 0 /\ self.ybin % win.ybin = 0
    /\ win.llx <= self.llx /\ Win_urx(win) >= Win_urx(self)
    /\ win.lly <= self.lly /\ Win_ury(win) >= Win_ury(self)
Window_inside(self, win) ==
    /\ self.xbin % win.xbin = 0 /\ self.ybin % win.ybin = 0
    /\ win.llx <= self.llx /\ Win_urx(win) >= Win_urx(self)
    /\ win.lly <= self.lly /\ Win_ury(win) >= Win_ury(self)
    /\ (self.llx - win.llx) % win.xbin = 0
    /\ (self.lly - win.lly) % win.ybin = 0

\* Window.clash(win): "ValueError" if it raises, "" if it returns
Window_clashStrict(self, win) ==
    IF /\ self.llx < Win_urx(win) /\ Win_urx(self) > win.llx
       /\ self.lly < Win_ury(win) /\ Win_ury(self) > win.lly
    THEN "ValueError" ELSE ""
Window_clash(self, win) ==
    IF /\ self.llx <= Win_urx(win) /\ Win_urx(self) >= win.llx
       /\ self.lly <= Win_ury(win) /\ Win_ury(self) >= win.lly
    THEN "ValueError" ELSE ""

\* Window.__eq__(win)
Window_eq(self, win) ==
    /\ self.llx = win.llx /\ self.lly = win.lly
    /\ self.nx = win.nx /\ self.ny = win.ny
    /\ self.xbin = win.xbin /\ self.ybin = win.ybin

\* Window(llx, lly, nx, ny, xbin, ybin): every argument is stored as given
Window_init(llx, lly, nx, ny, xbin, ybin) ==
    [raised |-> "",
     win |-> [llx |-> llx, lly |-> lly, nx |-> nx, ny |-> ny,
              xbin |-> xbin, ybin |-> ybin]]

\* 'w.nx = n', 'w.ny = n': the setters of Window
Window_set_nx(w, n) ==
    IF n < 1 THEN [raised |-> "ValueError", win |-> w]
    ELSE [raised |-> "", win |-> [w EXCEPT !.nx = n]]
Window_set_ny(w, n) ==
    IF n < 1 THEN [raised |-> "ValueError", win |-> w]
    ELSE [raised |-> "", win |-> [w EXCEPT !.ny = n]]

\* Window.copy()
Window_copy(w) == Window_init(w.llx, w.lly, w.nx, w.ny, w.xbin, w.ybin)

\* Window.window(xlo, xhi, ylo, yhi): ok = FALSE stands for the ValueError
Window_windowFloor(w, xlo, xhi, ylo, yhi) ==
    LET llx == Max(w.llx, w.llx + w.xbin * ((xlo - Win_xlo(w)) \div (2 * w.xbin)))
        lly == Max(w.lly, w.lly + w.ybin * ((ylo - Win_ylo(w)) \div (2 * w.ybin)))
        nx == w.nx - (llx - w.llx) \div w.xbin
                   - Max(0, CeilDiv(Win_xhi(w) - xhi, 2 * w.xbin))
        ny == w.ny - (lly - w.lly) \div w.ybin
                   - Max(0, CeilDiv(Win_yhi(w) - yhi, 2 * w.ybin))
    IN IF nx <= 0 \/ ny <= 0
       THEN [ok |-> FALSE, win |-> w]
       ELSE [ok |-> TRUE,
             win |-> [llx |-> llx, lly |-> lly, nx |-> nx, ny |-> ny,
                      xbin |-> w.xbin, ybin |-> w.ybin]]
Window_window(w, xlo, xhi, ylo, yhi) ==
    LET llx == Max(w.llx, w.llx + w.xbin * CeilDiv(xlo - Win_xlo(w), 2 * w.xbin))
        lly == Max(w.lly, w.lly + w.ybin * CeilDiv(ylo - Win_ylo(w), 2 * w.ybin))
        nx == w.nx - (llx - w.llx) \div w.xbin
                   - Max(0, CeilDiv(Win_xhi(w) - xhi, 2 * w.xbin))
        ny == w.ny - (lly - w.lly) \div w.ybin
                   - Max(0, CeilDiv(Win_yhi(w) - yhi, 2 * w.ybin))
    IN IF nx <= 0 \/ ny <= 0
       THEN [ok |-> FALSE, win |-> w]
       ELSE [ok |-> TRUE,
             win |-> [llx |-> llx, lly |-> lly, nx |-> nx, ny |-> ny,
                      xbin |-> w.xbin, ybin |-> w.ybin]]

\* Windat.window: the data of window 'sub' cut out of the data of window w
Windat_slice(w, data, sub) ==
    LET x1 == (sub.llx - w.llx) \div w.xbin
        y1 == (sub.lly - w.lly) \div w.ybin
    IN [p \in 1..(sub.nx * sub.ny) |->
           data[(((p - 1) \div sub.nx) + y1) * w.nx + (((p - 1) % sub.nx) + x1) + 1]]

(***************************************************************************)
(* window.py: Windat with its numpy array.  An array is [ndim, shape, v]   *)
(* with v the samples, the last index running fastest; a Windat is         *)
(* [win, data], its nx and ny being read off the shape of data.  Samples   *)
(* are held in quarters of a count, which keeps the mean of a block of 2   *)
(* or 4 whole counts exact.                                                *)
(***************************************************************************)
\* data[r, c] of a 2D array, r and c counted from 0
At(arr, r, c) == arr.v[r * arr.shape[2] + c + 1]

\* data[y0:y1, x0:x1]
Slice(arr, y0, y1, x0, x1) ==
    [ndim |-> 2, shape |-> <<y1 - y0, x1 - x0>>,
     v |-> [p \in 1..((y1 - y0) * (x1 - x0)) |->
              At(arr, y0 + (p - 1) \div (x1 - x0), x0 + ((p - 1) % (x1 - x0)))]]

\* np.zeros((ny, nx))
Zeros(ny, nx) ==
    [ndim |-> 2, shape |-> <<ny, nx>>, v |-> [p \in 1..(ny * nx) |-> 0]]

\* Windat.nx, Windat.ny: 'self.data.shape[1]', 'self.data.shape[0]'
Windat_nx(wd) == wd.data.shape[2]
Windat_ny(wd) == wd.data.shape[1]

\* the Window that the methods of Window see in a Windat
Windat_win(wd) ==
    [llx |-> wd.win.llx, lly |-> wd.win.lly, nx |-> Windat_nx(wd),
     ny |-> Windat_ny(wd), xbin |-> wd.win.xbin, ybin |-> wd.win.ybin]

\* 'data=None': no array at all
NoData == [ndim |-> -1, shape |-> <<>>, v |-> <<>>]

\* Windat(win, data), data = NoData if no data are given; 'raised' names the
\* exception ("" if none)
Windat_initNoCheck(win, data) ==
    IF data = NoData
    THEN [raised |-> "", win |-> win, data |-> Zeros(win.ny, win.nx)]
    ELSE [raised |-> "", win |-> win, data |-> data]
Windat_init(win, data) ==
    IF data = NoData
    THEN [raised |-> "", win |-> win, data |-> Zeros(win.ny, win.nx)]
    ELSE IF data.ndim # 2
    THEN [raised |-> "ValueError", win |-> win, data |-> data]
    ELSE IF data.shape[2] # win.nx \/ data.shape[1] # win.ny
    THEN [raised |-> "ValueError", win |-> win, data |-> data]
    ELSE [raised |-> "", win |-> win, data |-> data]

\* 'wd.nx = n', 'wd.ny = n': the exception raised and the Windat afterwards
Windat_set_nx(wd, n) == [raised |-> "NotImplementedError", wd |-> wd]
Windat_set_ny(wd, n) == [raised |-> "NotImplementedError", wd |-> wd]

\* Window.matches(win) called on a Windat with another Windat
Window_matchesShape(self, win) ==
    IF ~(self.nx = win.nx /\ self.ny = win.ny) THEN "ValueError" ELSE ""
Window_matches(self, win) ==
    IF ~Window_eq(self, win) THEN "ValueError" ELSE ""

\* the arithmetic operators of Windat, and those that work in place
Ops == {"add", "sub", "mul", "truediv", "iadd", "isub", "imul", "itruediv"}
InPlace == {"iadd", "isub", "imul", "itruediv"}

\* np.add, np.subtract, np.multiply, np.true_divide on two samples held in
\* quarters of a count; a quotient is kept as <<numerator, denominator>>
Ufunc(op, x, y) ==
    CASE op \in {"add", "iadd"} -> x + y
      [] op \in {"sub", "isub"} -> x - y
      [] op \in {"mul", "imul"} -> (x * y) \div 4
      [] op \in {"truediv", "itruediv"} -> <<x, y>>

\* 'self op other' for two Windats: the exception raised, the two operands
\* afterwards and the Windat returned
Windat_arith(op, self, other) ==
    LET data == [ndim |-> 2, shape |-> self.data.shape,
                 v |-> [p \in DOMAIN self.data.v |->
                          Ufunc(op, self.data.v[p], other.data.v[p])]]
    IN IF Window_matches(Windat_win(self), Windat_win(other)) # ""
       THEN [raised |-> "ValueError", self |-> self, other |-> other,
             result |-> self]
       ELSE IF op \in InPlace
       THEN [raised |-> "", self |-> [self EXCEPT !.data = data],
             other |-> other, result |-> [self EXCEPT !.data = data]]
       ELSE LET r == Windat_init(Windat_win(self), data)
            IN [raised |-> r.raised, self |-> self, other |-> other,
                result |-> [win |-> r.win, data |-> r.data]]

\* the sum of the samples of a 2D array
ArraySum(arr) == SumSeq(arr.v, arr.shape[1] * arr.shape[2])

\* 'as_strided(data, shape, strides)' followed by 'data.mean(-1).mean(-1)':
\* the mean of each block of by x bx samples
BlockMeans(arr, by, bx) ==
    [ndim |-> 2, shape |-> <<arr.shape[1] \div by, arr.shape[2] \div bx>>,
     v |-> [p \in 1..((arr.shape[1] \div by) * (arr.shape[2] \div bx)) |->
              LET r == (p - 1) \div (arr.shape[2] \div bx)
                  c == (p - 1) % (arr.shape[2] \div bx)
              IN ArraySum(Slice(arr, r * by, (r + 1) * by,
                                c * bx, (c + 1) * bx)) \div (by * bx)]]

\* Windat.crop(win)
Windat_cropNoBin(wd, win) ==
    LET self == Windat_win(wd)
        xstart == (win.llx - self.llx) \div self.xbin
        xend == xstart + (win.nx * win.xbin) \div self.xbin
        ystart == (win.lly - self.lly) \div self.ybin
        yend == ystart + (win.ny * win.ybin) \div self.ybin
    IN IF Window_outside(self, win)
       THEN Windat_init(win, Slice(wd.data, ystart, yend, xstart, xend))
       ELSE [raised |-> "ValueError", win |-> wd.win, data |-> wd.data]
Windat_crop(wd, win) ==
    LET self == Windat_win(wd)
        xstart == (win.llx - self.llx) \div self.xbin
        xend == xstart + (win.nx * win.xbin) \div self.xbin
        ystart == (win.lly - self.lly) \div self.ybin
        yend == ystart + (win.ny * win.ybin) \div self.ybin
        data == Slice(wd.data, ystart, yend, xstart, xend)
    IN IF Window_outside(self, win)
       THEN IF win.xbin > self.xbin \/ win.ybin > self.ybin
            THEN Windat_init(win, BlockMeans(data, win.ybin \div self.ybin,
                                             win.xbin \div self.xbin))
            ELSE Windat_init(win, data)
       ELSE [raised |-> "ValueError", win |-> wd.win, data |-> wd.data]

(***************************************************************************)
(* Quality flags: a bitmask, modelled as the set of the bits that are set  *)
(***************************************************************************)
ALL_OK == {}
NO_FWHM == {"NO_FWHM"}
NO_SKY == {"NO_SKY"}
SKY_AT_EDGE == {"SKY_AT_EDGE"}
TARGET_AT_EDGE == {"TARGET_AT_EDGE"}
TARGET_SATURATED == {"TARGET_SATURATED"}
TARGET_NONLINEAR == {"TARGET_NONLINEAR"}
NO_DATA == {"NO_DATA"}
NO_EXTRACTION == {"NO_EXTRACTION"}

\* the value numpy gives for the mean of no values
NaN == -999999

(***************************************************************************)
(* extractFlux(): the steps for one aperture                               *)
(*                                                                         *)
(* An aperture is [x, y, rtarg, rsky1, rsky2, extra, mask] with extra a    *)
(* sequence of <<xoff, yoff>> and mask one of <<xoff, yoff, radius>>.      *)
(***************************************************************************)
\* sqrt(q) > d, for integers q >= 0 and d
SqrtGt(q, d) == d < 0 \/ q > d * d

\* fixed-point: x as a number of hundredths
Centi(x) == 100 * x

\* 'x1, x2, y1, y2 = (aper.x-aper.rsky2-wdata.xbin, ...)': region of interest
RegionOfInterest(aper, w) ==
    [x1 |-> aper.x - aper.rsky2 - 2 * w.xbin,
     x2 |-> aper.x + aper.rsky2 + 2 * w.xbin,
     y1 |-> aper.y - aper.rsky2 - 2 * w.ybin,
     y2 |-> aper.y + aper.rsky2 + 2 * w.ybin]

\* the circle of radius r about the aperture reaches beyond the sub-window
OffEdge(aper, sw, r) ==
    \/ Win_xlo(sw) > aper.x - r \/ Win_xhi(sw) < aper.x + r
    \/ Win_ylo(sw) > aper.y - r \/ Win_yhi(sw) < aper.y + r

\* the same for rout = sqrt(xoff**2+yoff**2) + aper.rtarg of an extra aperture
OffEdgeExtra(aper, sw, off) ==
    LET q == off[1] * off[1] + off[2] * off[2] IN
    \/ SqrtGt(q, aper.x - aper.rtarg - Win_xlo(sw))
    \/ SqrtGt(q, Win_xhi(sw) - aper.x - aper.rtarg)
    \/ SqrtGt(q, aper.y - aper.rtarg - Win_ylo(sw))
    \/ SqrtGt(q, Win_yhi(sw) - aper.y - aper.rtarg)

\* the flags set by the checks of the sub-window's extent
EdgeFlags(aper, sw) ==
    (IF OffEdge(aper, sw, aper.rsky2) THEN SKY_AT_EDGE ELSE ALL_OK)
    \cup (IF OffEdge(aper, sw, aper.rtarg) THEN TARGET_AT_EDGE ELSE ALL_OK)
    \cup (IF \E k \in DOMAIN aper.extra : OffEdgeExtra(aper, sw, aper.extra[k])
          THEN TARGET_AT_EDGE ELSE ALL_OK)

\* X, Y of pixel p of the sub-window relative to the aperture's centre
PixX(aper, sw, p) == Win_x(sw, (p - 1) % sw.nx) - aper.x
PixY(aper, sw, p) == Win_y(sw, (p - 1) \div sw.nx) - aper.y
PixRsq(aper, sw, p) ==
    PixX(aper, sw, p) * PixX(aper, sw, p) + PixY(aper, sw, p) * PixY(aper, sw, p)

\* squared distance of pixel p from the point offset by (xoff, yoff)
OffRsq(aper, sw, p, xoff, yoff) ==
    (PixX(aper, sw, p) - xoff) * (PixX(aper, sw, p) - xoff)
      + (PixY(aper, sw, p) - yoff) * (PixY(aper, sw, p) - yoff)

\* 'sok': the sky pixels, outside the masks and the extra apertures
SkySelect(aper, sw) ==
    [p \in 1..(sw.nx * sw.ny) |->
        /\ PixRsq(aper, sw, p) > aper.rsky1 * aper.rsky1
        /\ PixRsq(aper, sw, p) < aper.rsky2 * aper.rsky2
        /\ \A k \in DOMAIN aper.mask :
              OffRsq(aper, sw, p, aper.mask[k][1], aper.mask[k][2])
                  > aper.mask[k][3] * aper.mask[k][3]
        /\ \A k \in DOMAIN aper.extra :
              OffRsq(aper, sw, p, aper.extra[k][1], aper.extra[k][2])
                  > aper.rtarg * aper.rtarg]

\* sum and sum of squares of the data selected by ok
SelSum(data, ok) ==
    SumSeq([p \in DOMAIN ok |-> IF ok[p] THEN data[p] ELSE 0], Len(ok))
SelSumSq(data, ok) ==
    SumSeq([p \in DOMAIN ok |-> IF ok[p] THEN data[p] * data[p] ELSE 0], Len(ok))

\* the clipped mean: 'while nrej:' with ok the pixels still accepted.
\* |d - mean| < thresh*rms is compared exactly, as
\*   (n*d - S)^2 < thresh^2 * (n*Q - S^2).
\* The mean of no pixels is nan, which passes no comparison.
RECURSIVE ClipLoop(_, _, _)
ClipLoop(data, ok, thresh) ==
    LET nold == Count(ok)
        S == SelSum(data, ok)
        Q == SelSumSq(data, ok)
        ok2 == [p \in DOMAIN ok |->
                  /\ ok[p]
                  /\ nold > 0
                  /\ (nold * data[p] - S) * (nold * data[p] - S)
                        < thresh * thresh * (nold * Q - S * S)]
        nrej == nold - Count(ok2)
    IN IF nrej # 0 THEN ClipLoop(data, ok2, thresh)
       ELSE [ok |-> ok2, nsky |-> Count(ok2), nrej |-> nrej,
             nan |-> nold = 0,
             \* slevel, in hundredths
             slevel |-> IF nold = 0 THEN NaN ELSE (Centi(S)) \div nold,
             \* srms**2, rounded down
             svar |-> IF nold = 0 THEN NaN
                      ELSE (nold * Q - S * S) \div (nold * nold),
             \* serror = srms/sqrt(nsky), in hundredths
             serror |-> IF nold = 0 THEN NaN
                        ELSE Isqrt((10000 * (nold * Q - S * S))
                                      \div (nold * nold * nold))]

\* one pass of the body of 'while nrej:': the pixels accepted after it and
\* the number it rejected
ClipPassAll(data, ok, thresh) ==
    LET all == [p \in DOMAIN ok |-> TRUE]
        n == Count(all)
        S == SelSum(data, all)
        Q == SelSumSq(data, all)
        ok2 == [p \in DOMAIN ok |->
                  /\ ok[p]
                  /\ (n * data[p] - S) * (n * data[p] - S)
                        < thresh * thresh * (n * Q - S * S)]
    IN [ok |-> ok2, nrej |-> Count(ok) - Count(ok2)]
ClipPass(data, ok, thresh) ==
    LET nold == Count(ok)
        S == SelSum(data, ok)
        Q == SelSumSq(data, ok)
        ok2 == [p \in DOMAIN ok |->
                  /\ ok[p]
                  /\ nold > 0
                  /\ (nold * data[p] - S) * (nold * data[p] - S)
                        < thresh * thresh * (nold * Q - S * S)]
    IN [ok |-> ok2, nrej |-> nold - Count(ok2)]

\* 'size = np.sqrt(wdata.xbin*wdata.ybin)', in half pixels
PixelSize(w) == 2 * Isqrt(w.xbin * w.ybin)

\* 'Rsq < (aper.rtarg+size/2.)**2'
InTarget(rsq, rtarg, size) ==
    4 * rsq < (2 * rtarg + size) * (2 * rtarg + size)

\* the tapered weight of a pixel, in hundredths:
\* min(1, max(0, (rtarg + size/2 - sqrt(rsq))/size))
TaperWeightHard(rsq, rtarg, size) ==
    IF InTarget(rsq, rtarg, size) THEN 100 ELSE 0
TaperWeight(rsq, rtarg, size) ==
    Min(100, Max(0, (100 * rtarg + 50 * size - Isqrt(10000 * rsq)) \div size))

\* 'dok' before the extra apertures are added
TargetSelect(aper, sw, size) ==
    [p \in 1..(sw.nx * sw.ny) |-> InTarget(PixRsq(aper, sw, p), aper.rtarg, size)]

\* 'dok' once the extra apertures have been added
TargetSelectAll(aper, sw, size) ==
    [p \in 1..(sw.nx * sw.ny) |->
        \/ InTarget(PixRsq(aper, sw, p), aper.rtarg, size)
        \/ \E k \in DOMAIN aper.extra :
              InTarget(OffRsq(aper, sw, p, aper.extra[k][1], aper.extra[k][2]),
                       aper.rtarg, size)]

\* the largest of the weights of pixel p over the first k extra apertures
RECURSIVE ExtraWeight(_, _, _, _, _)
ExtraWeight(aper, sw, size, p, k) ==
    IF k = 0 THEN TaperWeight(PixRsq(aper, sw, p), aper.rtarg, size)
    ELSE Max(ExtraWeight(aper, sw, size, p, k - 1),
             TaperWeight(OffRsq(aper, sw, p, aper.extra[k][1], aper.extra[k][2]),
                         aper.rtarg, size))

\* 'wgt': the weight of every pixel, target and extra apertures merged
Weights(aper, sw, size) ==
    [p \in 1..(sw.nx * sw.ny) |-> ExtraWeight(aper, sw, size, p, Len(aper.extra))]

\* the saturation and non-linearity flags, from the raw data of the pixels
\* selected by dok; warn.set = FALSE: no levels are set for this CCD
SaturationFlags(warn, raw, dok) ==
    IF warn.set
    THEN (IF MaxSel(raw, dok, Len(dok)) >= warn.saturation
          THEN TARGET_SATURATED ELSE ALL_OK)
         \cup (IF MaxSel(raw, dok, Len(dok)) >= warn.nonlinear
               THEN TARGET_NONLINEAR ELSE ALL_OK)
    ELSE ALL_OK

\* fitting.moffat / fitting.gaussian of unit height at the aperture's centre,
\* in hundredths: a bell of width mfwhm
Profile(rsq, mfwhm, mbeta) ==
    IF mbeta > 0
    THEN (100 * mbeta * mfwhm * mfwhm) \div (mbeta * mfwhm * mfwhm + 4 * rsq)
    ELSE (100 * mfwhm * mfwhm) \div (mfwhm * mfwhm + 8 * rsq)

\* the record of an aperture for which nothing was extracted
FailureResult(aper, info, flag) ==
    [x |-> aper.x, xe |-> info.xe, y |-> aper.y, ye |-> info.ye,
     fwhm |-> info.fwhm, fwhme |-> info.fwhme,
     beta |-> info.beta, betae |-> info.betae,
     counts |-> Centi(0), countse |-> Centi(-1),
     sky |-> Centi(0), skye |-> Centi(0), nsky |-> 0, nrej |-> 0,
     flag |-> flag]

\* the record of an aperture whose flux was extracted
SuccessResult(aper, info, counts, countse, sky, flag) ==
    [x |-> aper.x, xe |-> info.xe, y |-> aper.y, ye |-> info.ye,
     fwhm |-> info.fwhm, fwhme |-> info.fwhme,
     beta |-> info.beta, betae |-> info.betae,
     counts |-> counts, countse |-> countse,
     sky |-> sky.slevel, skye |-> sky.serror, nsky |-> sky.nsky,
     nrej |-> sky.nrej, flag |-> flag]

\* 'else: # no sky': the sky values when no sky pixel is selected
NoSkyUnit(sok) ==
    [ok |-> sok, nsky |-> 0, nrej |-> 0, nan |-> FALSE,
     slevel |-> Centi(0), svar |-> 0, serror |-> Centi(1)]
NoSky(sok) ==
    [ok |-> sok, nsky |-> 0, nrej |-> 0, nan |-> FALSE,
     slevel |-> Centi(0), svar |-> 0, serror |-> Centi(-1)]

\* 'counts = (wtarg*diff).sum()', in hundredths
FluxSum(data, wtarg, dok, sky) ==
    IF sky.nan THEN NaN
    ELSE SumSeq([p \in DOMAIN dok |->
                    IF dok[p] THEN wtarg[p] * (Centi(data[p]) - sky.slevel)
                    ELSE 0], Len(dok)) \div 100

\* 'var': the variance of the flux, in units of 1/10000
FluxVar(data, read, gain, wtarg, dok, sky, override) ==
    SumSeq([p \in DOMAIN dok |->
               IF ~dok[p] THEN 0
               ELSE IF override
                    THEN wtarg[p] * wtarg[p]
                           * (sky.svar
                              + (Max(0, Centi(data[p]) - sky.slevel) \div 100)
                                   \div gain[p])
                    ELSE wtarg[p] * wtarg[p]
                           * (read[p] * read[p] + Max(0, data[p]) \div gain[p])],
           Len(dok))
    + (IF ~sky.nan /\ sky.serror > 0
       THEN LET t == (SelSum(wtarg, dok) * sky.serror) \div 100 IN t * t
       ELSE 0)

\* 'flag = hcam.ALL_OK' at the top of the body of the loop over the apertures;
\* prev is the flag the aperture before was left with
InitialFlagKept(prev) == prev
InitialFlag(prev) == ALL_OK

\* the body of the loop over the apertures, for one aperture: 'raised' names
\* the exception that leaves extractFlux ("" if none), 'res' is the record
\* stored in results[apnam]
ApertureFlux(rf, mfwhm, mbeta, aper, info, w, ccd, rccd, read, gain, flag0) ==
    LET roi == RegionOfInterest(aper, w)
        cut == Window_window(w, roi.x1, roi.x2, roi.y1, roi.y2)
        sw == cut.win
        swdata == Windat_slice(w, ccd, sw)
        swread == Windat_slice(w, read, sw)
        swgain == Windat_slice(w, gain, sw)
        swraw == Windat_slice(w, rccd, sw)
        sok == SkySelect(aper, sw)
        hassky == Count(sok) > 0
        sky == IF hassky THEN ClipLoop(swdata, sok, rf.thresh) ELSE NoSky(sok)
        flag1 == flag0 \cup EdgeFlags(aper, sw)
                       \cup (IF hassky THEN ALL_OK ELSE NO_SKY)
        size == PixelSize(w)
        dok0 == TargetSelect(aper, sw, size)
        flag2 == flag1 \cup SaturationFlags(rf.warn, swraw, dok0)
        dok == TargetSelectAll(aper, sw, size)
        wgt == Weights(aper, sw, size)
        override == sky.nsky > 0 /\ rf.error = "variance"
        wtarg == IF rf.extype = "optimal"
                 THEN [p \in DOMAIN wgt |->
                         (wgt[p] * Profile(PixRsq(aper, sw, p), mfwhm, mbeta))
                            \div 100]
                 ELSE wgt
        counts == FluxSum(swdata, wtarg, dok, sky)
        countse == Isqrt(FluxVar(swdata, swread, swgain, wtarg, dok, sky,
                                 override))
    IN  IF ~cut.ok
        \* Window.window raises ValueError, which the except clause lets by
        THEN [raised |-> "ValueError", res |-> FailureResult(aper, info, flag0)]
        ELSE IF hassky /\ rf.method # "clipped"
        \* 'dsky.median()': an ndarray has no median method
        THEN [raised |-> "AttributeError",
              res |-> FailureResult(aper, info, flag1)]
        ELSE IF Count(dok0) = 0
        \* HipercamError('no valid pixels in aperture'), caught below
        THEN [raised |-> "",
              res |-> FailureResult(aper, info,
                                    flag1 \cup NO_DATA \cup NO_EXTRACTION)]
        ELSE IF rf.extype \notin {"normal", "optimal"}
        \* HipercamError('extraction type ... not recognised'), caught below
        THEN [raised |-> "",
              res |-> FailureResult(aper, info, flag2 \cup NO_EXTRACTION)]
        ELSE [raised |-> "",
              res |-> SuccessResult(aper, info, counts, countse, sky, flag2)]

(***************************************************************************)
(* extractFlux(): aperture re-sizing and the loop over the apertures       *)
(***************************************************************************)
\* the aperture labels of the CCD, in the order of rfile.aper[cnam]
Labels == <<"1", "2", "3">>
LabelSet == {Labels[k] : k \in DOMAIN Labels}

\* 'max(rmin, min(rmax, r))'
ClampLow(rmin, rmax, r) == Max(rmin, r)
Clamp(rmin, rmax, r) == Max(rmin, Min(rmax, r))

\* the 'variable' re-sizing of one aperture
ResizeVariable(aper, rf, mfwhm) ==
    [aper EXCEPT !.rtarg = Clamp(rf.r1min, rf.r1max, rf.r1fac * mfwhm),
                 !.rsky1 = Clamp(rf.r2min, rf.r2max, rf.r2fac * mfwhm),
                 !.rsky2 = Clamp(rf.r3min, rf.r3max, rf.r3fac * mfwhm)]

\* the 'fixed' re-sizing of one aperture
ResizeFixed(aper, rf) ==
    [aper EXCEPT !.rtarg = Clamp(rf.r1min, rf.r1max, aper.rtarg),
                 !.rsky1 = Clamp(rf.r2min, rf.r2max, aper.rsky1),
                 !.rsky2 = Clamp(rf.r3min, rf.r3max, aper.rsky2)]

\* which branch of the re-sizing 'if' is taken
ResizeBranchNoCheck(rf, mfwhm) ==
    IF rf.resize = "variable" \/ rf.extype = "optimal" THEN "variable"
    ELSE IF rf.resize = "fixed" THEN "fixed"
    ELSE "error"
ResizeBranch(rf, mfwhm) ==
    IF rf.resize = "variable" \/ rf.extype = "optimal"
    THEN (IF mfwhm <= 0 THEN "nofwhm" ELSE "variable")
    ELSE IF rf.resize = "fixed" THEN "fixed"
    ELSE "error"

\* the results returned early when there is no measured FWHM
NoFwhmResults(apers, st) ==
    [l \in LabelSet |-> FailureResult(apers[l], st.ap[l], NO_FWHM)]

\* 'for apnam, aper in ccdaper.items()': the state of extractFlux after the
\* first k apertures; an exception that is not caught ends the loop
RECURSIVE ApertureLoop(_, _, _, _, _, _, _, _, _)
ApertureLoop(rf, st, sized, w, ccd, rccd, read, gain, k) ==
    IF k = 0
    THEN [raised |-> "", results |-> <<>>, flag |-> ALL_OK]
    ELSE LET prev == ApertureLoop(rf, st, sized, w, ccd, rccd, read, gain,
                                  k - 1)
             l == Labels[k]
             one == ApertureFlux(rf, st.mfwhm, st.mbeta, sized[l], st.ap[l],
                                 w, ccd, rccd, read, gain,
                                 InitialFlag(prev.flag))
         IN IF prev.raised # "" THEN prev
            ELSE IF one.raised # ""
            THEN [raised |-> one.raised, results |-> <<>>,
                  flag |-> one.res.flag]
            ELSE [raised |-> "", results |-> prev.results @@ (l :> one.res),
                  flag |-> one.res.flag]

\* extractFlux(cnam, ccd, rccd, read, gain, ccdwin, rfile, store):
\* 'raised' is the exception it ends with ("" if it returns), 'results' what
\* it returns, 'ccdaper' the apertures as it leaves them
extractFlux(rf, apers, st, w, ccd, rccd, read, gain) ==
    LET branch == ResizeBranch(rf, st.mfwhm)
        sized == [l \in LabelSet |->
                    IF branch = "variable"
                    THEN ResizeVariable(apers[l], rf, st.mfwhm)
                    ELSE IF branch = "fixed" THEN ResizeFixed(apers[l], rf)
                    ELSE apers[l]]
        loop == ApertureLoop(rf, st, sized, w, ccd, rccd, read, gain,
                             Len(Labels))
    IN  IF branch = "nofwhm"
        THEN [raised |-> "", results |-> NoFwhmResults(apers, st),
              ccdaper |-> apers, resized |-> FALSE]
        ELSE IF branch = "error"
        THEN [raised |-> "HipercamError", results |-> <<>>,
              ccdaper |-> apers, resized |-> FALSE]
        ELSE [raised |-> loop.raised, results |-> loop.results,
              ccdaper |-> sized, resized |-> TRUE]

(***************************************************************************)
(* extractFlux(): the inputs explored                                      *)
(***************************************************************************)
\* the windows: 12 x 12 unbinned pixels, and the same area binned 2 x 2
Windows ==
    {[llx |-> 1, lly |-> 1, nx |-> 12, ny |-> 12, xbin |-> 1, ybin |-> 1],
     [llx |-> 1, lly |-> 1, nx |-> 6, ny |-> 6, xbin |-> 2, ybin |-> 2]}

\* the frames: a sky level, a patterned sky noise, a star on unbinned pixel
\* (6,6), a hot pixel at (9,6), a flare at (11,7) and a bias level that the
\* raw data still have
Frames ==
    {[sky |-> 100, noise |-> 0, star |-> 50, hot |-> 0, flare |-> 0,
      bias |-> 20],
     [sky |-> 100, noise |-> 2, star |-> 60, hot |-> 40, flare |-> 200,
      bias |-> 20],
     [sky |-> 100, noise |-> 2, star |-> 150, hot |-> 0, flare |-> 0,
      bias |-> 120]}

\* the binned pixel of window w that holds unbinned pixel (ux, uy)
PixelOf(w, ux, uy) ==
    ((uy - w.lly) \div w.ybin) * w.nx + ((ux - w.llx) \div w.xbin) + 1

\* the processed data of a frame over window w
FrameData(w, f) ==
    [p \in 1..(w.nx * w.ny) |->
        f.sky + f.noise * ((((p - 1) % w.nx) + 2 * ((p - 1) \div w.nx)) % 3)
              + (IF p = PixelOf(w, 6, 6) THEN f.star ELSE 0)
              + (IF p = PixelOf(w, 9, 6) THEN f.hot ELSE 0)
              + (IF p = PixelOf(w, 11, 7) THEN f.flare ELSE 0)]

\* the raw data of a frame over window w
FrameRaw(w, f) == [p \in 1..(w.nx * w.ny) |-> FrameData(w, f)[p] + f.bias]

\* the readout noise and gain maps over window w
ReadMap(w) == [p \in 1..(w.nx * w.ny) |-> 3]
GainMap(w) == [p \in 1..(w.nx * w.ny) |-> 1]

\* rfile['extraction'][cnam], rfile['sky'] and rfile.warn[cnam]
AllRfiles ==
    [resize : {"variable", "fixed", "other"},
     extype : {"normal", "optimal", "other"},
     r1fac : {1}, r1min : {2}, r1max : {4},
     r2fac : {3}, r2min : {4}, r2max : {6},
     r3fac : {3}, r3min : {8}, r3max : {10},
     method : {"clipped", "median"},
     thresh : {2},
     error : {"variance", "photon"},
     warn : {[set |-> TRUE, saturation |-> 250, nonlinear |-> 200],
             [set |-> FALSE, saturation |-> 0, nonlinear |-> 0]}]

\* the reduce files explored: every resize and extraction type with the
\* usual sky method, error and warning levels, and one of the three changed
\* at a time for normal extraction
Rfiles ==
    {rf \in AllRfiles :
        LET changed == (IF rf.method = "clipped" THEN 0 ELSE 1)
                         + (IF rf.error = "variance" THEN 0 ELSE 1)
                         + (IF rf.warn.set THEN 0 ELSE 1)
        IN \/ changed = 0
           \/ changed = 1 /\ rf.extype = "normal" /\ rf.resize # "other"}

\* the apertures as read from the aperture file
InitApers ==
    [l \in LabelSet |->
        IF l = "1"
        THEN [x |-> 12, y |-> 12, rtarg |-> 3, rsky1 |-> 5, rsky2 |-> 9,
              extra |-> <<>>, mask |-> <<>>]
        ELSE IF l = "2"
        THEN [x |-> 16, y |-> 14, rtarg |-> 1, rsky1 |-> 7, rsky2 |-> 9,
              extra |-> << <<4, 0>>, <<-10, 0>> >>,
              mask |-> << <<-6, 0, 2>> >>]
        \* a mask that hides the whole of the sky annulus
        ELSE [x |-> 12, y |-> 16, rtarg |-> 3, rsky1 |-> 5, rsky2 |-> 9,
              extra |-> <<>>, mask |-> << <<0, 0, 12>> >>]]

\* where moveApers may leave aperture "1": on the star, at the edge of the
\* window, beside the window and far off the window
Positions == {<<12, 12>>, <<3, 12>>, <<-6, 12>>, <<-20, 12>>}

\* the mean FWHM and beta that moveApers may leave in the store
Seeing == {<<-1, -1>>, <<2, -1>>, <<3, 4>>}

\* the per-aperture values moveApers leaves in the store for frame n
InfoOf(k, n, see) ==
    [xe |-> 100 * k + 10 + n, ye |-> 100 * k + 20 + n,
     fwhm |-> see[1], fwhme |-> 100 * k + 30 + n,
     beta |-> see[2], betae |-> 100 * k + 40 + n]

\* 'nframes': the frame numbers of the frames given to ccdproc
InFrames == <<5, 6, 8, 9>>

InitExtract ==
    /\ rfile \in Rfiles
    /\ wdata \in Windows
    /\ ccdaper = InitApers
    /\ store = [mfwhm |-> -1, mbeta |-> -1,
                ap |-> [l \in LabelSet |-> InfoOf(0, 0, <<-1, -1>>)]]
    /\ frame = <<>>
    /\ epc = "move"
    /\ nproc = 0
    /\ eresults = <<>>
    /\ raised = ""
    /\ resized = FALSE
    \* 'res = []'
    /\ res = <<>>
    /\ ReduceIdle
    /\ CallIdle

(***************************************************************************)
(* ccdproc(): for each frame, moveApers and then extractFlux               *)
(***************************************************************************)
\* moveApers(cnam, ccd, read, gain, ccdwin, rfile, store): updates the store
\* and may move the apertures
MoveApers ==
    /\ epc = "move"
    /\ nproc < MaxFrames
    \* 'for ccd, rccd, nframe in zip(pccd, mccd, nframes)'
    /\ frame' \in Frames
    /\ \E pos \in Positions, see \in Seeing :
        /\ ccdaper' = [ccdaper EXCEPT !["1"].x = pos[1], !["1"].y = pos[2]]
        /\ store' = [mfwhm |-> see[1], mbeta |-> see[2],
                     ap |-> [l \in LabelSet |->
                               InfoOf(CHOOSE k \in DOMAIN Labels : Labels[k] = l,
                                      nproc + 1, see)]]
    /\ epc' = "extract"
    \* the results of the frame before are out of scope in ccdproc
    /\ eresults' = <<>>
    /\ UNCHANGED <<rfile, wdata, nproc, raised, resized, res>>
    /\ UNCHANGED <<rvars, pvars>>

\* 'res.append((nframe, store, rfile.aper[cnam], results, ...))'
res_insert(list, t) == <<t>> \o list
res_append(list, t) == Append(list, t)

\* results = extractFlux(cnam, ccd, rccd, read, gain, ccdwin, rfile, store)
\* and, if it returns, the tuple appended to res.  The tuple holds the
\* frame number and references: to the dictionary store, to the apertures
\* rfile.aper[cnam], and to the results this call returned (the k-th such
\* object); the header values of the frame are left out.
ExtractFlux ==
    /\ epc = "extract"
    /\ \E r \in {extractFlux(rfile, ccdaper, store, wdata,
                            FrameData(wdata, frame), FrameRaw(wdata, frame),
                            ReadMap(wdata), GainMap(wdata))} :
           /\ ccdaper' = r.ccdaper
           /\ eresults' = r.results
           /\ raised' = r.raised
           /\ resized' = r.resized
           /\ epc' = IF r.raised = "" THEN "move" ELSE "raised"
           /\ res' = IF r.raised = ""
                     THEN res_append(res, [nframe |-> InFrames[nproc + 1],
                                           store |-> "store",
                                           ccdaper |-> "ccdaper",
                                           results |-> nproc + 1])
                     ELSE res
    /\ nproc' = nproc + 1
    /\ UNCHANGED <<rfile, wdata, store, frame>>
    /\ UNCHANGED <<rvars, pvars>>

\* 'return (cnam, res)' once the frames given have all been through the loop
Return ==
    /\ epc = "move"
    /\ nproc > 0
    /\ epc' = "returned"
    /\ UNCHANGED <<rfile, ccdaper, store, wdata, frame, nproc, eresults,
                   raised, resized, res>>
    /\ UNCHANGED <<rvars, pvars>>

\* what a reference held in a tuple of res stands for when it is read
Deref(ref) == IF ref = "store" THEN store ELSE ccdaper

NextExtract ==
    \/ MoveApers
    \/ ExtractFlux
    \/ Return

(***************************************************************************)
(* The weight of a pixel, computed for one pixel at a time                 *)
(***************************************************************************)
\* largest target radius and largest offset of a pixel from the centre of
\* the aperture, in half pixels
MaxRtarg == 8
MaxOff == 10

\* binning factors whose product is a square, so that 'size' is rational
Binnings == {<<1, 1>>, <<2, 2>>, <<1, 4>>, <<4, 4>>}

InitTaper ==
    /\ call \in [rtarg : 1..MaxRtarg, bin : Binnings,
                  dx : 0..MaxOff, dy : 0..MaxOff]
    /\ ret = <<>>
    /\ cpc = "call"
    /\ ReduceIdle
    /\ ExtractIdle

\* 'size = np.sqrt(wdata.xbin*wdata.ybin)' and 'wgt = np.minimum(1, ...)' for
\* the pixel at (dx, dy) from the centre of the aperture
TaperApply ==
    /\ cpc = "call"
    /\ ret' = [size |-> PixelSize([xbin |-> call.bin[1], ybin |-> call.bin[2]]),
               wgt |-> TaperWeight(
                         call.dx * call.dx + call.dy * call.dy, call.rtarg,
                         PixelSize([xbin |-> call.bin[1], ybin |-> call.bin[2]]))]
    /\ cpc' = "done"
    /\ UNCHANGED call
    /\ UNCHANGED <<rvars, evars>>

NextTaper ==
    \/ TaperApply

(***************************************************************************)
(* window.py: the methods of Window, called one at a time                  *)
(***************************************************************************)
\* largest llx, largest nx and largest edge of a box in x (in half pixels)
MaxLl == 3
MaxN == 3
MaxBox == 6

\* the Windows explored
Wins ==
    [llx : 1..MaxLl, lly : 1..2, nx : 1..MaxN, ny : 1..2,
     xbin : {1, 2}, ybin : {1, 2}]

\* the boxes explored, in half pixels
Boxes ==
    {b \in [xlo : 0..MaxBox, xhi : 0..MaxBox, ylo : 0..6, yhi : 0..6] :
        b.xlo <= b.xhi /\ b.ylo <= b.yhi}

\* a call is about two Windows, about a Window and a box, or about a Window
\* alone
InitWindow ==
    /\ \/ call \in [kind : {"pair", "clash"}, a : Wins, b : Wins]
       \/ call \in [kind : {"box"}, a : Wins, box : Boxes]
       \/ call \in [kind : {"self"}, a : Wins]
       \/ call \in [kind : {"make"}, llx : {1}, lly : {1}, nx : 0..MaxN,
                     ny : 0..2, xbin : 0..2, ybin : 0..2]
    /\ ret = <<>>
    /\ cpc = "call"
    /\ ReduceIdle
    /\ ExtractIdle

\* a.outside(b)
OutsideCall ==
    /\ cpc = "call" /\ call.kind = "pair"
    /\ "outside" \notin DOMAIN ret
    /\ ret' = ret @@ ("outside" :> Window_outside(call.a, call.b))
    /\ cpc' = IF "inside" \in DOMAIN ret THEN "done" ELSE "call"
    /\ UNCHANGED call
    /\ UNCHANGED <<rvars, evars>>

\* b.inside(a)
InsideCall ==
    /\ cpc = "call" /\ call.kind = "pair"
    /\ "inside" \notin DOMAIN ret
    /\ ret' = ret @@ ("inside" :> Window_inside(call.b, call.a))
    /\ cpc' = IF "outside" \in DOMAIN ret THEN "done" ELSE "call"
    /\ UNCHANGED call
    /\ UNCHANGED <<rvars, evars>>

\* a.clash(b)
ClashCall ==
    /\ cpc = "call" /\ call.kind = "clash"
    /\ "clash" \notin DOMAIN ret
    /\ ret' = ret @@ ("clash" :> Window_clash(call.a, call.b))
    /\ cpc' = IF "clashback" \in DOMAIN ret THEN "done" ELSE "call"
    /\ UNCHANGED call
    /\ UNCHANGED <<rvars, evars>>

\* b.clash(a)
ClashBackCall ==
    /\ cpc = "call" /\ call.kind = "clash"
    /\ "clashback" \notin DOMAIN ret
    /\ ret' = ret @@ ("clashback" :> Window_clash(call.b, call.a))
    /\ cpc' = IF "clash" \in DOMAIN ret THEN "done" ELSE "call"
    /\ UNCHANGED call
    /\ UNCHANGED <<rvars, evars>>

\* a.window(xlo, xhi, ylo, yhi)
WindowCall ==
    /\ cpc = "call" /\ call.kind = "box"
    /\ ret' = ("window" :> Window_window(call.a, call.box.xlo, call.box.xhi,
                                         call.box.ylo, call.box.yhi))
    /\ cpc' = "done"
    /\ UNCHANGED call
    /\ UNCHANGED <<rvars, evars>>

\* a.window(*a.extent())
ExtentWindowCall ==
    /\ cpc = "call" /\ call.kind = "self"
    /\ \E e \in {Window_extent(call.a)} :
          ret' = ("extent" :> e
                  @@ "window" :> Window_window(call.a, e[1], e[2], e[3], e[4]))
    /\ cpc' = "done"
    /\ UNCHANGED call
    /\ UNCHANGED <<rvars, evars>>

\* Window(llx, lly, nx, ny, xbin, ybin)
MakeCall ==
    /\ cpc = "call" /\ call.kind = "make"
    /\ ret' = [made |-> Window_init(call.llx, call.lly, call.nx, call.ny,
                                    call.xbin, call.ybin)]
    /\ cpc' = "made"
    /\ UNCHANGED call
    /\ UNCHANGED <<rvars, evars>>

\* w.copy() of the Window just made
CopyCall ==
    /\ cpc = "made" /\ call.kind = "make"
    /\ ret' = ret @@ ("copy" :> Window_copy(ret["made"].win))
    /\ cpc' = "done"
    /\ UNCHANGED call
    /\ UNCHANGED <<rvars, evars>>

\* w.nx = n on the Window just made
SetWindowNxCall ==
    /\ cpc = "made" /\ call.kind = "make"
    /\ \E n \in 0..MaxN :
         ret' = ret @@ ("setnx" :> Window_set_nx(ret["made"].win, n)) @@ ("n" :> n)
    /\ cpc' = "done"
    /\ UNCHANGED call
    /\ UNCHANGED <<rvars, evars>>

\* w.ny = n on the Window just made
SetWindowNyCall ==
    /\ cpc = "made" /\ call.kind = "make"
    /\ \E n \in 0..MaxN :
         ret' = ret @@ ("setny" :> Window_set_ny(ret["made"].win, n)) @@ ("n" :> n)
    /\ cpc' = "done"
    /\ UNCHANGED call
    /\ UNCHANGED <<rvars, evars>>

NextWindow ==
    \/ OutsideCall
    \/ InsideCall
    \/ ClashCall
    \/ ClashBackCall
    \/ WindowCall
    \/ ExtentWindowCall \/ MakeCall \/ CopyCall
    \/ SetWindowNxCall \/ SetWindowNyCall

(***************************************************************************)
(* window.py: calls upon a Windat.  The Windat called upon is made of a    *)
(* Window of Wins and of samples that differ from pixel to pixel.          *)
(***************************************************************************)
\* the samples of a Windat of window w: whole counts, in quarters
Samples(w, seed) ==
    [ndim |-> 2, shape |-> <<w.ny, w.nx>>,
     v |-> [p \in 1..(w.ny * w.nx) |-> 4 * ((((p + seed) * (p + seed)) % 7) + p)]]

WindatOf(w, seed) == [win |-> w, data |-> Samples(w, seed)]

\* the arrays a Windat is constructed with: none, 2D of any shape, 1D, 3D
Arrays ==
    {NoData}
    \cup {[ndim |-> 2, shape |-> <<ny, nx>>, v |-> [p \in 1..(ny * nx) |-> 4 * p]] :
             ny \in 1..2, nx \in 1..MaxN}
    \cup {[ndim |-> 1, shape |-> <<n>>, v |-> [p \in 1..n |-> 4 * p]] : n \in 1..2}
    \cup {[ndim |-> 3, shape |-> <<1, ny, 1>>, v |-> [p \in 1..ny |-> 4 * p]] :
             ny \in 1..2}

InitWindat ==
    /\ \/ call \in [kind : {"crop"}, a : Wins, b : Wins, seed : {0, 1}]
       \/ call \in [kind : {"new"}, a : Wins, data : Arrays]
       \/ call \in [kind : {"arith"}, a : Wins, b : Wins]
    /\ ret = <<>>
    /\ cpc = "call"
    /\ ReduceIdle
    /\ ExtractIdle

\* a.crop(b)
CropCall ==
    /\ cpc = "call" /\ call.kind = "crop"
    /\ ret' = [crop |-> Windat_crop(WindatOf(call.a, call.seed), call.b)]
    /\ cpc' = "done"
    /\ UNCHANGED call
    /\ UNCHANGED <<rvars, evars>>

\* Windat(a, data)
NewCall ==
    /\ cpc = "call" /\ call.kind = "new"
    /\ \E r \in {Windat_init(call.a, call.data)} :
         /\ ret' = [new |-> r]
         /\ cpc' = IF r.raised = "" THEN "made" ELSE "done"
    /\ UNCHANGED call
    /\ UNCHANGED <<rvars, evars>>

\* wd.nx = n on the Windat just made
SetNxCall ==
    /\ cpc = "made" /\ call.kind = "new"
    /\ \E n \in 0..MaxN :
         ret' = ret @@ ("setnx" :> Windat_set_nx(ret["new"], n))
    /\ cpc' = "done"
    /\ UNCHANGED call
    /\ UNCHANGED <<rvars, evars>>

\* wd.ny = n on the Windat just made
SetNyCall ==
    /\ cpc = "made" /\ call.kind = "new"
    /\ \E n \in 0..MaxN :
         ret' = ret @@ ("setny" :> Windat_set_ny(ret["new"], n))
    /\ cpc' = "done"
    /\ UNCHANGED call
    /\ UNCHANGED <<rvars, evars>>

\* 'a op b' for the Windats of a and b, op one of Ops
ArithCall ==
    /\ cpc = "call" /\ call.kind = "arith"
    /\ \E op \in Ops :
         ret' = [arith |-> Windat_arith(op, WindatOf(call.a, 0), WindatOf(call.b, 1)),
                 op |-> op]
    /\ cpc' = "done"
    /\ UNCHANGED call
    /\ UNCHANGED <<rvars, evars>>

NextWindat ==
    CropCall \/ NewCall \/ SetNxCall \/ SetNyCall \/ ArithCall

(***************************************************************************)
(* reduce.py, extractFlux: the 'while nrej:' loop of the clipped mean,     *)
(* pass by pass, on a non-empty set of sky pixels                          *)
(***************************************************************************)
MaxSky == 6

InitClip ==
    /\ call \in [kind : {"clip"},
                  dsky : UNION {[1..n -> {0, 1, 10}] : n \in 1..MaxSky},
                  thresh : {1, 2, 3}]
    \* 'ok = np.ones_like(dsky, dtype=bool)', 'nrej = 1'
    /\ ret = [ok |-> [p \in DOMAIN call.dsky |-> TRUE], nrej |-> 1, npass |-> 0]
    /\ cpc = "while"
    /\ ReduceIdle
    /\ ExtractIdle

\* 'while nrej:' found true, and the body run once
ClipBody ==
    /\ cpc = "while" /\ call.kind = "clip"
    /\ ret.nrej # 0
    /\ \E r \in {ClipPass(call.dsky, ret.ok, call.thresh)} :
         ret' = [ok |-> r.ok, nrej |-> r.nrej, npass |-> ret.npass + 1]
    /\ UNCHANGED <<call, cpc>>
    /\ UNCHANGED <<rvars, evars>>

\* 'while nrej:' found false: 'nsky = len(dsky[ok])'
ClipExit ==
    /\ cpc = "while" /\ call.kind = "clip"
    /\ ret.nrej = 0
    /\ cpc' = "exit"
    /\ UNCHANGED <<call, ret>>
    /\ UNCHANGED <<rvars, evars>>

NextClip ==
    ClipBody \/ ClipExit

(***************************************************************************)
(* spooler.py: data_source.  Python values are written as they print:      *)
(* "None", "True", "False", "0", "1".                                      *)
(***************************************************************************)
\* the truth value Python gives a value in 'if v' and 'not v'
Truthy(v) == v \in {"True", "1"}

\* 'Spooler.<attr>': spooler.py binds no name Spooler, so that the
\* expression raises NameError before the attribute is looked up
Spooler(attr) == [raised |-> "NameError", value |-> "None"]

\* data_source(inst, server, flist)
data_source(inst, server, flist) ==
    IF inst = "ULTRA"
    THEN IF server = "None" THEN [raised |-> "ValueError", value |-> "None"]
         ELSE IF Truthy(server) THEN Spooler("ULTRA_SERV")
         ELSE Spooler("ULTRA_DISK")
    ELSE IF inst = "HIPER"
    THEN IF server = "None"
         THEN IF flist = "None" \/ ~Truthy(flist)
              THEN [raised |-> "ValueError", value |-> "None"]
              ELSE Spooler("HIPER_LIST")
         ELSE IF Truthy(server) THEN Spooler("HIPER_SERV")
         ELSE Spooler("HIPER_DISK")
    ELSE [raised |-> "ValueError", value |-> "None"]

InitSource ==
    /\ call \in [kind : {"source"},
                  inst : {"ULTRA", "HIPER", "ultra", "HCAM", ""},
                  server : {"None", "True", "False", "0", "1"},
                  flist : {"None", "True", "False", "0", "1"}]
    /\ ret = <<>>
    /\ cpc = "call"
    /\ ReduceIdle
    /\ ExtractIdle

\* data_source(inst, server, flist)
DataSourceCall ==
    /\ cpc = "call" /\ call.kind = "source"
    /\ ret' = [source |-> data_source(call.inst, call.server, call.flist)]
    /\ cpc' = "done"
    /\ UNCHANGED call
    /\ UNCHANGED <<rvars, evars>>

(***************************************************************************)
(* reduce(): properties                                                    *)
(***************************************************************************)
\* the frames that arrived, as frame numbers and as frame identities
ArrivedNumbers == [i \in 1..Len(arrived) |-> arrived[i].nframe]
ArrivedIds == [i \in 1..Len(arrived) |-> arrived[i].id]

\* C1: with group size G and a stream of N frames that ends by exhaustion,
\* the processor is called floor(N/G) times with G frames each, and once more
\* with N mod G frames iff N mod G > 0; inside the loop the buffer is empty
\* after each full dispatch, so it never holds G frames or more between
\* iterations.
C1_GroupDispatch ==
    /\ Len(pccds) <= ngroup
    /\ pc = "loop" => Len(pccds) < ngroup
    /\ (pc = "done" /\ how = "exhausted") =>
        LET N == nrecv
            G == ngroup
            full == N \div G
            part == N % G
        IN /\ Len(dispatches) = full + (IF part > 0 THEN 1 ELSE 0)
           /\ \A i \in 1..Len(dispatches) :
                 /\ Len(dispatches[i].nframes) = IF i <= full THEN G ELSE part
                 /\ Len(dispatches[i].pccds) = Len(dispatches[i].nframes)
                 /\ Len(dispatches[i].mccds) = Len(dispatches[i].nframes)

\* seven frames in groups of three are dispatched as 3, 3, 1
C1_Witness ==
    /\ pc = "done" /\ how = "exhausted"
    /\ ngroup = 3 /\ nrecv = 7
    /\ [i \in 1..Len(dispatches) |-> Len(dispatches[i].nframes)] = <<3, 3, 1>>

\* C2: on every path every frame appended to the group buffer reaches the
\* processor in exactly one dispatch: the frames dispatched so far followed
\* by the frames still waiting are the frames that arrived, in order, and
\* when reduce() is done the dispatched frame numbers are the arrived ones.
C2_NoLossNoDup ==
    /\ pc # "done" => FlattenIds(dispatches) \o mccds = ArrivedIds
    /\ pc = "done" => /\ FlattenIds(dispatches) = ArrivedIds
                      /\ Flatten(dispatches) = ArrivedNumbers
    /\ \A i \in 1..Len(dispatches) :
          dispatches[i].pccds = dispatches[i].mccds

\* a run that gave up with a partly filled group after a full one
C2_Witness ==
    /\ pc = "done" /\ how = "give_up"
    /\ ngroup = 3 /\ Len(arrived) = 4 /\ Len(dispatches) = 2

\* C3: after give_up reduce() is out of the loop; the frames buffered at the
\* stall were dispatched once, as the last dispatch, every dispatch was
\* written to the log, and from then on nothing is read, dispatched or
\* written again.
C3_GiveUpFlush ==
    /\ [](how = "give_up" =>
            /\ pc \in {"post", "done"}
            /\ mccds = <<>>
            /\ FlattenIds(dispatches) = ArrivedIds
            /\ Flatten(dispatches) = ArrivedNumbers
            /\ log = dispatches
            /\ Len(pccds) > 0 =>
                  dispatches[Len(dispatches)] =
                      processor(pccds, pccds, nframes))
    /\ [][how = "give_up" =>
            /\ nf' = nf /\ nrecv' = nrecv
            /\ dispatches' = dispatches /\ log' = log]_vars

\* give-up with two frames waiting in a group of three
C3_Witness ==
    /\ pc = "done" /\ how = "give_up"
    /\ ngroup = 3 /\ Len(pccds) = 2 /\ Len(dispatches) = 1
    /\ log = dispatches

\* C4: a try_again poll is not treated as a received frame: it leaves the
\* buffers and the dispatches alone and does not change the frame number
\* that the next received frame will get.
C4_TryAgainNotReceived ==
    [][how' = "try_again" =>
         /\ pccds' = pccds /\ mccds' = mccds /\ nframes' = nframes
         /\ dispatches' = dispatches /\ log' = log
         /\ FrameNumber(SpoolFrame(nrecv' + 1, first', headnf'), nf')
              = FrameNumber(SpoolFrame(nrecv + 1, first, headnf), nf)]_vars

\* C5: with a non-zero 'last' and a source other than 'hf' no frame numbered
\* beyond 'last' is buffered or dispatched; when the first such frame is met
\* the loop is left and the buffered frames have been dispatched once.
C5_LastFrameCutoff ==
    /\ (source # "hf" /\ last # 0) =>
          /\ \A i \in 1..Len(arrived) : arrived[i].nframe <= last
          /\ \A i \in 1..Len(nframes) : nframes[i] <= last
          /\ \A i \in 1..Len(dispatches) :
                \A j \in 1..Len(dispatches[i].nframes) :
                    dispatches[i].nframes[j] <= last
    /\ how = "last" =>
          /\ pc \in {"post", "done"}
          /\ source # "hf" /\ last # 0
          /\ mccds = <<>>
          /\ Flatten(dispatches) = ArrivedNumbers

\* frames 2 and 3 were buffered, frame 4 is beyond last = 3
C5_Witness ==
    /\ pc = "done" /\ how = "last"
    /\ first = 2 /\ last = 3 /\ headnf
    /\ ngroup = 3 /\ Len(dispatches) = 1
    /\ dispatches[1].nframes = <<2, 3>>

(***************************************************************************)
(* extractFlux(): properties                                               *)
(***************************************************************************)
\* a step of extractFlux
ExtractStep == epc = "extract" /\ epc' # "extract"

\* extractFlux has just returned from the loop over the apertures: the
\* apertures are as it re-sized them, the store and the frame as it read them
Extracted == epc = "move" /\ nproc > 0 /\ resized /\ raised = ""

\* the region of interest of an aperture misses its window altogether
NoOverlap(aper, w) ==
    LET roi == RegionOfInterest(aper, w)
    IN ~Window_window(w, roi.x1, roi.x2, roi.y1, roi.y2).ok

\* the radii of an aperture
Radii(aper) == <<aper.rtarg, aper.rsky1, aper.rsky2>>

\* the radii of an aperture are within the limits of the reduce file
WithinLimits(aper, rf) ==
    /\ rf.r1min <= aper.rtarg /\ aper.rtarg <= rf.r1max
    /\ rf.r2min <= aper.rsky1 /\ aper.rsky1 <= rf.r2max
    /\ rf.r3min <= aper.rsky2 /\ aper.rsky2 <= rf.r3max

\* C6: when the region of interest of an aperture has no overlap with its
\* window (and nothing else is wrong with the set-up), extractFlux returns a
\* result for every aperture, and the result of that aperture carries
\* NO_EXTRACTION with counts 0 and countse -1.
C6_EmptyOverlapConfined ==
    [][(/\ ExtractStep
        /\ resized'
        /\ rfile.method = "clipped"
        /\ rfile.extype \in {"normal", "optimal"}
        /\ \E l \in LabelSet : NoOverlap(ccdaper'[l], wdata))
       => /\ raised' = ""
          /\ DOMAIN eresults' = LabelSet
          /\ \A l \in LabelSet :
                NoOverlap(ccdaper'[l], wdata) =>
                    /\ NO_EXTRACTION \subseteq eresults'[l].flag
                    /\ eresults'[l].counts = Centi(0)
                    /\ eresults'[l].countse = Centi(-1)]_vars

\* C7: with an extraction type that is neither 'normal' nor 'optimal', a
\* call of extractFlux that gets as far as the apertures ends with an
\* exception and returns no results.
C7_UnknownExtypeFatal ==
    [][(/\ ExtractStep
        /\ rfile.extype \notin {"normal", "optimal"}
        /\ resized')
       => (raised' # "" /\ eresults' = <<>>)]_vars

\* C8: with a resize mode that is neither 'variable' nor 'fixed' extractFlux
\* raises HipercamError and leaves the apertures alone, whatever the
\* extraction type and the mean FWHM.
C8_UnknownResizeFatal ==
    [][(ExtractStep /\ rfile.resize \notin {"variable", "fixed"})
       => /\ raised' = "HipercamError"
          /\ eresults' = <<>>
          /\ ccdaper' = ccdaper]_vars

\* C9: when resize is 'variable' or extype is 'optimal' and mfwhm <= 0,
\* extractFlux returns, changes no aperture, and gives every aperture a
\* result with flag NO_FWHM, counts 0, countse -1, the position of the
\* aperture and the other fields from the store.
C9_NoFwhm ==
    [][(/\ ExtractStep
        /\ rfile.resize = "variable" \/ rfile.extype = "optimal"
        /\ store.mfwhm <= 0)
       => /\ raised' = ""
          /\ ccdaper' = ccdaper
          /\ DOMAIN eresults' = LabelSet
          /\ \A l \in LabelSet :
                /\ eresults'[l].flag = NO_FWHM
                /\ eresults'[l].counts = Centi(0)
                /\ eresults'[l].countse = Centi(-1)
                /\ eresults'[l].x = ccdaper[l].x
                /\ eresults'[l].y = ccdaper[l].y
                /\ eresults'[l].xe = store.ap[l].xe
                /\ eresults'[l].ye = store.ap[l].ye
                /\ eresults'[l].fwhm = store.ap[l].fwhm
                /\ eresults'[l].fwhme = store.ap[l].fwhme
                /\ eresults'[l].beta = store.ap[l].beta
                /\ eresults'[l].betae = store.ap[l].betae]_vars

\* C9: optimal extraction with fixed resizing and no measured FWHM: aperture
\* "2" keeps a target radius below r1min and is flagged NO_FWHM
C9_Witness ==
    /\ epc = "move" /\ nproc > 0
    /\ rfile.resize = "fixed" /\ rfile.extype = "optimal"
    /\ store.mfwhm <= 0
    /\ ccdaper["2"].rtarg < rfile.r1min
    /\ \A l \in LabelSet : eresults[l].flag = NO_FWHM

\* C10: once extractFlux has re-sized the apertures every radius is within
\* its limits, and in fixed mode a frame after the first changes no radius.
C10_RadiiWithinLimits ==
    /\ [](resized => \A l \in LabelSet : WithinLimits(ccdaper[l], rfile))
    /\ [][(/\ ExtractStep
           /\ ResizeBranch(rfile, store.mfwhm) = "fixed"
           /\ nproc >= 1)
          => \A l \in LabelSet : Radii(ccdaper'[l]) = Radii(ccdaper[l])]_vars

\* C10: after two frames in fixed mode aperture "2", read with rtarg below
\* r1min and rsky1 above r2max, sits on both limits
C10_Witness ==
    /\ epc = "move" /\ nproc = 2 /\ resized
    /\ rfile.resize = "fixed" /\ rfile.extype = "normal"
    /\ InitApers["2"].rtarg < rfile.r1min
    /\ InitApers["2"].rsky1 > rfile.r2max
    /\ ccdaper["2"].rtarg = rfile.r1min
    /\ ccdaper["2"].rsky1 = rfile.r2max

\* the sub-window cut out for an aperture whose region of interest overlaps
\* the window
SubWindowOf(aper, w) ==
    LET roi == RegionOfInterest(aper, w)
    IN Window_window(w, roi.x1, roi.x2, roi.y1, roi.y2).win

\* no pixel of the sub-window is selected as a target pixel of the aperture
NoTargetPixel(aper, w) ==
    Count(TargetSelect(aper, SubWindowOf(aper, w), PixelSize(w))) = 0

\* the fields of a record that are carried from the aperture and the store
CarriedFrom(rec, aper, info) ==
    /\ rec.x = aper.x /\ rec.y = aper.y
    /\ rec.xe = info.xe /\ rec.ye = info.ye
    /\ rec.fwhm = info.fwhm /\ rec.fwhme = info.fwhme
    /\ rec.beta = info.beta /\ rec.betae = info.betae

NoSkyPixel(aper, w) == Count(SkySelect(aper, SubWindowOf(aper, w))) = 0

\* the weights of the pixels of the sub-window in the flux sum
FluxWeights(rf, st, aper, sw, size) ==
    [p \in 1..(sw.nx * sw.ny) |->
        IF rf.extype = "optimal"
        THEN (ExtraWeight(aper, sw, size, p, Len(aper.extra))
                * Profile(PixRsq(aper, sw, p), st.mfwhm, st.mbeta)) \div 100
        ELSE ExtraWeight(aper, sw, size, p, Len(aper.extra))]

\* C12: an aperture with no sky pixel but with target pixels gets NO_SKY, sky
\* 0, skye -1, nsky 0 and nrej 0, and is still extracted: NO_EXTRACTION is not
\* set, counts is the sum of weight times pixel value over the target pixels
\* with nothing subtracted, and countse is the square root of the sum of
\* weight squared times (read noise squared + max(0, value)/gain): no term
\* for the sky error is added.
C12_NoSkyStillExtracts ==
    (/\ Extracted
     /\ rfile.extype \in {"normal", "optimal"})
    => \A l \in LabelSet :
         (NoSkyPixel(ccdaper[l], wdata) /\ ~NoTargetPixel(ccdaper[l], wdata))
         => LET rec == eresults[l]
                aper == ccdaper[l]
                sw == SubWindowOf(aper, wdata)
                size == PixelSize(wdata)
                n == sw.nx * sw.ny
                dok == TargetSelectAll(aper, sw, size)
                wtarg == FluxWeights(rfile, store, aper, sw, size)
                data == Windat_slice(wdata, FrameData(wdata, frame), sw)
                read == Windat_slice(wdata, ReadMap(wdata), sw)
                gain == Windat_slice(wdata, GainMap(wdata), sw)
            IN /\ NO_SKY \subseteq rec.flag
               /\ rec.flag \cap NO_EXTRACTION = {}
               /\ rec.sky = Centi(0)
               /\ rec.skye = Centi(-1)
               /\ rec.nsky = 0
               /\ rec.nrej = 0
               /\ rec.counts
                    = SumSeq([p \in 1..n |->
                                IF dok[p] THEN wtarg[p] * data[p] ELSE 0], n)
               /\ rec.countse
                    = Isqrt(SumSeq([p \in 1..n |->
                                IF dok[p]
                                THEN wtarg[p] * wtarg[p]
                                       * (read[p] * read[p]
                                          + Max(0, data[p]) \div gain[p])
                                ELSE 0], n))

\* C12: aperture "3", whose mask hides the whole sky annulus, was extracted
\* normally from the frame with the flat sky of 100: NO_SKY, sky 0, skye -1
\* and a flux
C12_Witness ==
    /\ Extracted
    /\ rfile.extype = "normal" /\ rfile.resize = "fixed"
    /\ frame.noise = 0 /\ wdata.xbin = 1
    /\ eresults["3"].flag = NO_SKY
    /\ eresults["3"].sky = Centi(0)
    /\ eresults["3"].skye = Centi(-1)
    /\ eresults["3"].nsky = 0
    /\ eresults["3"].counts = Centi(736)
    /\ eresults["3"].countse > 0

\* C13: after normal extraction of a frame with a flat sky (no noise, no hot
\* pixel), with aperture "1" on the star, extractFlux has returned and the
\* result of aperture "1" has the sky level of the frame and, as counts, the
\* signal of the star; for the clipped mean and for the median alike.
C13_FlatSkyFlux ==
    (/\ epc \in {"move", "raised"} /\ nproc > 0 /\ resized
     /\ rfile.extype = "normal"
     /\ frame.noise = 0 /\ frame.hot = 0 /\ frame.flare = 0
     /\ ccdaper["1"].x = 12 /\ ccdaper["1"].y = 12)
    => /\ raised = ""
       /\ eresults["1"].sky = Centi(frame.sky)
       /\ eresults["1"].counts = Centi(frame.star)

\* C15: with saturation levels set, an aperture that was extracted (normal
\* or optimal) and has a pixel, selected by the target aperture or by one of
\* its extra apertures, whose raw value is at or above the saturation level,
\* has TARGET_SATURATED in its result.
C15_SaturationFlagged ==
    (/\ Extracted
     /\ rfile.warn.set
     /\ rfile.extype \in {"normal", "optimal"})
    => \A l \in LabelSet :
         LET aper == ccdaper[l]
             sw == SubWindowOf(aper, wdata)
             dok == TargetSelectAll(aper, sw, PixelSize(wdata))
             raw == Windat_slice(wdata, FrameRaw(wdata, frame), sw)
         IN (/\ ~NoTargetPixel(aper, wdata)
             /\ MaxSel(raw, dok, Len(dok)) >= rfile.warn.saturation)
            => TARGET_SATURATED \subseteq eresults[l].flag

\* the circle of radius r about the point offset by off from the aperture
\* lies within window w
CircleInside(aper, w, off, r) ==
    /\ Win_xlo(w) <= aper.x + off[1] - r /\ aper.x + off[1] + r <= Win_xhi(w)
    /\ Win_ylo(w) <= aper.y + off[2] - r /\ aper.y + off[2] + r <= Win_yhi(w)

\* window w holds the sky circle, the target aperture and every extra
\* aperture of the aperture
HoldsAll(aper, w) ==
    /\ CircleInside(aper, w, <<0, 0>>, aper.rsky2)
    /\ \A k \in DOMAIN aper.extra :
          CircleInside(aper, w, aper.extra[k], aper.rtarg)

\* C16: when the window holds the sky circle and all the extra apertures of
\* an aperture that was extracted, TARGET_AT_EDGE is not set and every pixel
\* of the window that the target aperture or an extra aperture selects is
\* part of the sub-window cut out for the aperture.
C16_SubWindowCoversExtras ==
    (/\ Extracted
     /\ rfile.extype \in {"normal", "optimal"})
    => \A l \in LabelSet :
         LET aper == ccdaper[l]
             size == PixelSize(wdata)
         IN HoldsAll(aper, wdata)
            => /\ eresults[l].flag \cap TARGET_AT_EDGE = {}
               /\ Count(TargetSelectAll(aper, SubWindowOf(aper, wdata), size))
                    = Count(TargetSelectAll(aper, wdata, size))

(***************************************************************************)
(* The weight of a pixel: properties                                       *)
(***************************************************************************)
\* the squared distance of the pixel of the call from the centre
CallRsq == call.dx * call.dx + call.dy * call.dy

\* C14 as stated: the weight is within [0, 1]; it is 0.5 at the distance
\* rtarg, 1 at the centre and 0 from the distance rtarg + size/2 on, for
\* every target radius and binning.
C14_TaperAsStated ==
    cpc = "done"
    => /\ ret.wgt >= 0 /\ ret.wgt <= 100
       /\ CallRsq = call.rtarg * call.rtarg => ret.wgt = 50
       /\ CallRsq = 0 => ret.wgt = 100
       /\ 4 * CallRsq >= (2 * call.rtarg + ret.size) * (2 * call.rtarg + ret.size)
            => ret.wgt = 0

\* C14: the weight is within [0, 1]; it is 0.5 at the distance rtarg and 0
\* from the distance rtarg + size/2 on, for every target radius and binning;
\* at the centre it is min(1, rtarg/size + 1/2), which is 1 exactly when
\* rtarg >= size/2.
C14_Taper ==
    cpc = "done"
    => /\ ret.wgt >= 0 /\ ret.wgt <= 100
       /\ CallRsq = call.rtarg * call.rtarg => ret.wgt = 50
       /\ CallRsq = 0 =>
             /\ ret.wgt = Min(100, (100 * call.rtarg) \div ret.size + 50)
             /\ (ret.wgt = 100) <=> (2 * call.rtarg >= ret.size)
       /\ 4 * CallRsq >= (2 * call.rtarg + ret.size) * (2 * call.rtarg + ret.size)
            => ret.wgt = 0

\* C14: a pixel at 2.5 pixels from the centre along a diagonal (3-4-5), on
\* the edge of an aperture of radius 2.5 pixels binned 2 x 2, has weight 0.5
C14_Witness ==
    /\ cpc = "done"
    /\ call.rtarg = 5 /\ call.dx = 3 /\ call.dy = 4 /\ call.bin = <<2, 2>>
    /\ ret.wgt = 50

(***************************************************************************)
(* window.py: properties                                                   *)
(***************************************************************************)
\* both a.outside(b) and b.inside(a) have been called
PairDone == cpc = "done" /\ call.kind = "pair"

\* C17: for all Windows a and b, a.outside(b) returns what b.inside(a)
\* returns.
C17_OutsideIsInside ==
    PairDone => (ret["outside"] = ret["inside"])

\* C17: both calls returned True for an unbinned Window and a different
\* Window inside it that is binned by 2 in x
C17_Witness ==
    /\ PairDone
    /\ call.a.xbin = 1 /\ call.b.xbin = 2 /\ call.b.llx > call.a.llx
    /\ ret["outside"] /\ ret["inside"]

\* win's binning factors are integer multiples of self's
BinMultiple(self, win) ==
    win.xbin % self.xbin = 0 /\ win.ybin % self.ybin = 0

\* the unbinned pixels of win are among those of self
FootprintWithin(self, win) ==
    /\ {x \in win.llx..Win_urx(win) : TRUE} \subseteq self.llx..Win_urx(self)
    /\ {y \in win.lly..Win_ury(win) : TRUE} \subseteq self.lly..Win_ury(self)

\* every binned pixel of win is made of whole binned pixels of self: each
\* starts where a pixel of self starts and ends where a pixel of self ends
WholePixels(self, win) ==
    /\ \A i \in 0..(win.nx - 1) :
          /\ (win.llx + i * win.xbin - self.llx) % self.xbin = 0
          /\ (win.llx + (i + 1) * win.xbin - self.llx) % self.xbin = 0
    /\ \A j \in 0..(win.ny - 1) :
          /\ (win.lly + j * win.ybin - self.lly) % self.ybin = 0
          /\ (win.lly + (j + 1) * win.ybin - self.lly) % self.ybin = 0

\* C18 as stated: a.outside(b) is true iff b's binning factors are multiples
\* of a's, b's footprint lies within a's, and the offset of the origins is a
\* multiple of the coarser of the two binning factors in each axis.
C18_OutsideCoarserStep ==
    (cpc = "call" \/ cpc = "done") /\ call.kind = "pair"
       /\ "outside" \in DOMAIN ret
    => (ret["outside"]
        <=> /\ BinMultiple(call.a, call.b)
            /\ FootprintWithin(call.a, call.b)
            /\ (call.b.llx - call.a.llx) % Max(call.a.xbin, call.b.xbin) = 0
            /\ (call.b.lly - call.a.lly) % Max(call.a.ybin, call.b.ybin) = 0)

\* C18: a.outside(b) is true iff b's binning factors are multiples of a's,
\* b's footprint lies within a's, and the offset of the origins is a multiple
\* of a's binning factor in each axis; which is to say iff b's footprint lies
\* within a's and every pixel of b is made of whole pixels of a.
C18_Outside ==
    (cpc = "call" \/ cpc = "done") /\ call.kind = "pair"
       /\ "outside" \in DOMAIN ret
    => /\ ret["outside"]
          <=> /\ BinMultiple(call.a, call.b)
              /\ FootprintWithin(call.a, call.b)
              /\ (call.b.llx - call.a.llx) % call.a.xbin = 0
              /\ (call.b.lly - call.a.lly) % call.a.ybin = 0
       /\ ret["outside"]
          <=> (FootprintWithin(call.a, call.b) /\ WholePixels(call.a, call.b))

\* C18: an unbinned Window contains a Window binned 2 x 2 whose origin is
\* one pixel right of its own
C18_Witness ==
    /\ call.kind = "pair" /\ "outside" \in DOMAIN ret
    /\ call.a.xbin = 1 /\ call.a.ybin = 1
    /\ call.b.xbin = 2 /\ call.b.ybin = 2
    /\ call.b.llx = call.a.llx + 1 /\ call.b.lly = call.a.lly
    /\ ret["outside"]

\* a.window(*a.extent()) has been called
SelfDone == cpc = "done" /\ call.kind = "self"

\* C19: w.window(*w.extent()) returns a Window equal to w.
C19_WindowOfExtent ==
    SelfDone => (ret["window"].ok /\ Window_eq(ret["window"].win, call.a))

\* C19: the call was made for a Window of 2 x 2 pixels binned 2 x 2 with its
\* origin off (1,1), whose extent is (1.5, 5.5, 1.5, 5.5)
C19_Witness ==
    /\ SelfDone
    /\ call.a = [llx |-> 2, lly |-> 2, nx |-> 2, ny |-> 2, xbin |-> 2, ybin |-> 2]
    /\ ret["extent"] = <<3, 11, 3, 11>>
    /\ ret["window"].ok

\* the columns and the rows of binned pixels of w that lie completely inside
\* the box, counted from 0
ColumnsInside(w, box) ==
    {i \in 0..(w.nx - 1) :
        /\ box.xlo <= Win_xlo(w) + 2 * w.xbin * i
        /\ Win_xlo(w) + 2 * w.xbin * (i + 1) <= box.xhi}
RowsInside(w, box) ==
    {j \in 0..(w.ny - 1) :
        /\ box.ylo <= Win_ylo(w) + 2 * w.ybin * j
        /\ Win_ylo(w) + 2 * w.ybin * (j + 1) <= box.yhi}

\* the smallest member of a non-empty set of numbers
Least(S) == CHOOSE i \in S : \A k \in S : i <= k

\* a.window(xlo, xhi, ylo, yhi) has been called
BoxDone == cpc = "done" /\ call.kind = "box"

\* C20: a.window(box) raises ValueError iff no binned pixel of a lies
\* completely inside the box; otherwise it returns the Window with the
\* binning of a that starts at the first column and row of a inside the box
\* and has as many columns and rows as a has inside the box.
C20_WindowIsPixelsInside ==
    BoxDone
    => LET cols == ColumnsInside(call.a, call.box)
           rows == RowsInside(call.a, call.box)
           win == ret["window"].win
       IN /\ ~ret["window"].ok <=> (cols = {} \/ rows = {})
          /\ ret["window"].ok =>
                /\ win.xbin = call.a.xbin /\ win.ybin = call.a.ybin
                /\ win.llx = call.a.llx + call.a.xbin * Least(cols)
                /\ win.lly = call.a.lly + call.a.ybin * Least(rows)
                /\ win.nx = Cardinality(cols)
                /\ win.ny = Cardinality(rows)
                /\ Window_outside(call.a, win)

\* C20: a Window of 2 x 2 pixels binned 2 in y from (1,1) is cut by the box
\* (1, 3, 0, 2.5) to the pixel of its second column and first row
C20_Witness ==
    /\ BoxDone
    /\ call.a = [llx |-> 1, lly |-> 1, nx |-> 2, ny |-> 2, xbin |-> 1, ybin |-> 2]
    /\ call.box = [xlo |-> 2, xhi |-> 6, ylo |-> 0, yhi |-> 5]
    /\ ret["window"].ok
    /\ ret["window"].win
         = [llx |-> 2, lly |-> 1, nx |-> 1, ny |-> 1, xbin |-> 1, ybin |-> 2]

\* C20: the box (0, 2, 0, 3) holds no complete pixel of a Window binned 2 in
\* x from (1,1), and the call raised ValueError
C20_WitnessRaised ==
    /\ BoxDone
    /\ call.a.llx = 1 /\ call.a.xbin = 2
    /\ call.box.xlo = 0 /\ call.box.xhi = 4
    /\ ~ret["window"].ok

\* the unbinned pixels of a Window
Footprint(w) == (w.llx..Win_urx(w)) \X (w.lly..Win_ury(w))

\* both a.clash(b) and b.clash(a) have been called
ClashDone == cpc = "done" /\ call.kind = "clash"

\* C21: a.clash(b) raises ValueError iff a and b have an unbinned pixel in
\* common and returns otherwise, whatever the binning factors by which the
\* two footprints are made up, and b.clash(a) does what a.clash(b) does.
C21_ClashIsOverlap ==
    ClashDone
    => /\ (ret["clash"] = "ValueError")
          <=> (Footprint(call.a) \cap Footprint(call.b) # {})
       /\ ret["clash"] \in {"ValueError", ""}
       /\ ret["clashback"] = ret["clash"]

\* C21: two Windows of different binning that share the single unbinned
\* pixel (3,1) clash, both ways round
C21_Witness ==
    /\ ClashDone
    /\ call.a = [llx |-> 1, lly |-> 1, nx |-> 3, ny |-> 1, xbin |-> 1, ybin |-> 1]
    /\ call.b = [llx |-> 3, lly |-> 1, nx |-> 1, ny |-> 1, xbin |-> 2, ybin |-> 2]
    /\ ret["clash"] = "ValueError" /\ ret["clashback"] = "ValueError"

\* a.crop(b) has been called
CropDone == cpc = "done" /\ call.kind = "crop"

\* the samples of arr whose pixels of the Window a lie within pixel
\* (row j, column i) of the Window b
Covering(a, b, j, i) ==
    {q \in (0..(a.ny - 1)) \X (0..(a.nx - 1)) :
        /\ a.llx + q[2] * a.xbin >= b.llx + i * b.xbin
        /\ a.llx + (q[2] + 1) * a.xbin <= b.llx + (i + 1) * b.xbin
        /\ a.lly + q[1] * a.ybin >= b.lly + j * b.ybin
        /\ a.lly + (q[1] + 1) * a.ybin <= b.lly + (j + 1) * b.ybin}

RECURSIVE SumOver(_, _)
SumOver(arr, S) ==
    IF S = {} THEN 0
    ELSE LET q == CHOOSE q \in S : TRUE
         IN At(arr, q[1], q[2]) + SumOver(arr, S \ {q})

\* C22: a.crop(b) succeeds iff a.outside(b) and raises ValueError otherwise;
\* on success the result has window b, data of shape (b.ny, b.nx), every
\* sample the mean of the (b.ybin/a.ybin) x (b.xbin/a.xbin) samples of a
\* that cover it, and for equal binning the data are the slice of a's data
\* at the offset of b within a.
C22_CropIsBlockMean ==
    CropDone
    => LET a == call.a
           b == call.b
           r == ret["crop"]
           self == Samples(a, call.seed)
       IN /\ (r.raised = "") <=> Window_outside(a, b)
          /\ r.raised \in {"", "ValueError"}
          /\ r.raised = ""
             => /\ Window_eq(r.win, b)
                /\ r.data.ndim = 2 /\ r.data.shape = <<b.ny, b.nx>>
                /\ \A j \in 0..(b.ny - 1), i \in 0..(b.nx - 1) :
                      LET S == Covering(a, b, j, i)
                      IN /\ Cardinality(S)
                              = (b.ybin \div a.ybin) * (b.xbin \div a.xbin)
                         /\ At(r.data, j, i) * Cardinality(S) = SumOver(self, S)
                /\ (a.xbin = b.xbin /\ a.ybin = b.ybin)
                   => r.data = Slice(self, (b.lly - a.lly) \div a.ybin,
                                     (b.lly - a.lly) \div a.ybin + b.ny,
                                     (b.llx - a.llx) \div a.xbin,
                                     (b.llx - a.llx) \div a.xbin + b.nx)

\* C22: an unbinned 3 x 2 Windat cropped to the 2 x 2 binned pixel at (2,1)
\* gives the mean of its four samples
C22_Witness ==
    /\ CropDone
    /\ call.a = [llx |-> 1, lly |-> 1, nx |-> 3, ny |-> 2, xbin |-> 1, ybin |-> 1]
    /\ call.b = [llx |-> 2, lly |-> 1, nx |-> 1, ny |-> 1, xbin |-> 2, ybin |-> 2]
    /\ call.seed = 0
    /\ ret["crop"].raised = ""
    /\ ret["crop"].data.v = <<27>>

\* C22: a Windat cropped to a Window that reaches beyond it raises
C22_WitnessRaised ==
    /\ CropDone
    /\ call.a = [llx |-> 1, lly |-> 1, nx |-> 2, ny |-> 2, xbin |-> 1, ybin |-> 1]
    /\ call.b = [llx |-> 2, lly |-> 1, nx |-> 2, ny |-> 1, xbin |-> 1, ybin |-> 1]
    /\ ret["crop"].raised = "ValueError"

\* Windat(a, data) has been called
NewDone == call.kind = "new" /\ cpc \in {"made", "done"}

\* C23: Windat(win, data) raises ValueError if data is given and is not 2D
\* or not of shape (win.ny, win.nx); without data it holds zeros of shape
\* (win.ny, win.nx); a Windat that exists has nx and ny equal to the shape
\* of its data; assigning nx or ny raises and leaves the Windat as it was.
C23_ShapeIsData ==
    NewDone
    => LET r == ret["new"]
           d == call.data
           bad == /\ d # NoData
                  /\ (d.ndim # 2 \/ d.shape # <<call.a.ny, call.a.nx>>)
       IN /\ bad => r.raised = "ValueError"
          /\ ~bad => r.raised = ""
          /\ r.raised = ""
             => /\ r.data.ndim = 2
                /\ r.data.shape = <<Windat_ny(r), Windat_nx(r)>>
                /\ r.data.shape = <<r.win.ny, r.win.nx>>
                /\ r.win = call.a
                /\ d = NoData => r.data = Zeros(call.a.ny, call.a.nx)
                /\ d # NoData => r.data = d
          /\ \A k \in {"setnx", "setny"} \cap DOMAIN ret :
                /\ ret[k].raised # ""
                /\ ret[k].wd = r
                /\ ret[k].wd.data.shape
                     = <<Windat_ny(ret[k].wd), Windat_nx(ret[k].wd)>>

\* C23: a Windat made without data for a 3 x 2 Window holds six zeros, and
\* an assignment to nx or ny has raised
C23_Witness ==
    /\ NewDone /\ cpc = "done"
    /\ call.data = NoData
    /\ call.a.nx = 3 /\ call.a.ny = 2
    /\ ret["new"].data.v = <<0, 0, 0, 0, 0, 0>>
    /\ "setnx" \in DOMAIN ret
    /\ ret["setnx"].raised = "NotImplementedError"

\* C23: an array of 2 x 2 samples given for a Window of 3 x 2 is refused
C23_WitnessRaised ==
    /\ NewDone
    /\ call.data.ndim = 2 /\ call.data.shape = <<2, 2>>
    /\ call.a.nx = 3 /\ call.a.ny = 2
    /\ ret["new"].raised = "ValueError"

\* 'a op b' has been evaluated
ArithDone == cpc = "done" /\ call.kind = "arith"

\* C24: an arithmetic operation of a Windat with a Windat whose window
\* differs in any of llx, lly, nx, ny, xbin, ybin raises ValueError and
\* leaves the data of both as they were; with an equal window it succeeds
\* and the result has that window.
C24_ArithNeedsEqualWindows ==
    ArithDone
    => LET r == ret["arith"]
           differ == \E k \in {"llx", "lly", "nx", "ny", "xbin", "ybin"} :
                        call.a[k] # call.b[k]
       IN /\ differ
             => /\ r.raised = "ValueError"
                /\ r.self = WindatOf(call.a, 0)
                /\ r.other = WindatOf(call.b, 1)
          /\ ~differ
             => /\ r.raised = ""
                /\ Windat_win(r.result) = call.a
                /\ r.other = WindatOf(call.b, 1)
                /\ r.result.data.v[1]
                     = Ufunc(ret["op"], Samples(call.a, 0).v[1],
                             Samples(call.b, 1).v[1])

\* C24: two Windats that differ in ybin alone, with data of one shape, were
\* divided in place and the division raised
C24_Witness ==
    /\ ArithDone
    /\ ret["op"] = "itruediv"
    /\ call.a = [llx |-> 1, lly |-> 1, nx |-> 2, ny |-> 2, xbin |-> 1, ybin |-> 1]
    /\ call.b = [call.a EXCEPT !.ybin = 2]
    /\ ret["arith"].raised = "ValueError"

\* C24: two Windats of one window were added, and the sum has that window
C24_WitnessEqual ==
    /\ ArithDone
    /\ ret["op"] = "add"
    /\ call.a = [llx |-> 2, lly |-> 1, nx |-> 2, ny |-> 1, xbin |-> 2, ybin |-> 1]
    /\ call.b = call.a
    /\ ret["arith"].raised = ""
    /\ ret["arith"].result.win = call.a
    /\ ret["arith"].result.data.v = <<28, 40>>

\* the Windows that exist in a state: made by the constructor, by copy,
\* left by a setter, or returned by Window.window
Existing ==
    {ret[k].win : k \in {k \in {"made", "copy", "setnx", "setny"} \cap DOMAIN ret :
                            ret[k].raised = ""}}
    \cup {ret[k].win : k \in {k \in {"window"} \cap DOMAIN ret : ret[k].ok}}

\* C25: every Window that exists has nx >= 1, ny >= 1, xbin >= 1 and
\* ybin >= 1, and a construction or an assignment with a dimension below 1
\* is rejected.
C25_WindowsArePositive ==
    /\ \A w \in Existing : w.nx >= 1 /\ w.ny >= 1 /\ w.xbin >= 1 /\ w.ybin >= 1
    /\ (/\ call.kind = "make" /\ "made" \in DOMAIN ret
        /\ (call.nx < 1 \/ call.ny < 1 \/ call.xbin < 1 \/ call.ybin < 1))
       => ret["made"].raised # ""
    /\ \A k \in {"setnx", "setny"} \cap DOMAIN ret :
          (call.kind = "make" /\ ret["n"] < 1) => ret[k].raised # ""

\* data_source has been called
SourceDone == cpc = "done" /\ call.kind = "source"

\* the constant that matches (inst, server, flist)
Matching(inst, server, flist) ==
    IF inst = "ULTRA"
    THEN IF server \in {"True", "1"} THEN "ULTRA_SERV" ELSE "ULTRA_DISK"
    ELSE IF server = "None" THEN "HIPER_LIST"
    ELSE IF server \in {"True", "1"} THEN "HIPER_SERV" ELSE "HIPER_DISK"

\* C26: data_source(inst, server, flist) raises ValueError if inst is
\* neither 'ULTRA' nor 'HIPER', if inst is 'ULTRA' and server is None, if
\* inst is 'HIPER', server is None and flist is not true, and if server is
\* True or False while flist is True; otherwise it returns the constant
\* that matches (inst, server, flist).
C26_SourceOrValueError ==
    SourceDone
    => LET r == ret["source"]
           conflict ==
             \/ call.inst \notin {"ULTRA", "HIPER"}
             \/ call.inst = "ULTRA" /\ call.server = "None"
             \/ /\ call.inst = "HIPER" /\ call.server = "None"
                /\ call.flist \notin {"True", "1"}
             \/ call.server \in {"True", "False"} /\ call.flist = "True"
       IN /\ conflict => r.raised = "ValueError"
          /\ ~conflict
             => /\ r.raised = ""
                /\ r.value = Matching(call.inst, call.server, call.flist)

\* the loop of the clipped mean has been left
ClipDone == cpc = "exit" /\ call.kind = "clip"

\* d lies within thresh standard deviations of the mean of the data
\* selected by ok (the standard deviation that of numpy, over n)
Within(d, data, ok, thresh) ==
    LET n == Count(ok)
        S == SelSum(data, ok)
        Q == SelSumSq(data, ok)
    IN (n * d - S) * (n * d - S) < thresh * thresh * (n * Q - S * S)

ClipBounded ==
    call.kind = "clip"
    => /\ ret.npass <= Len(call.dsky) + 1
       \* nrej is a count, on which 'while nrej' decides
       /\ ret.nrej \in 0..Len(call.dsky)
       /\ ClipDone
          => /\ \A p \in DOMAIN ret.ok :
                   ret.ok[p] => Within(call.dsky[p], call.dsky, ret.ok, call.thresh)
             /\ ClipPass(call.dsky, ret.ok, call.thresh).nrej = 0
             /\ ClipPass(call.dsky, ret.ok, call.thresh).ok = ret.ok
             /\ ClipLoop(call.dsky, [p \in DOMAIN call.dsky |-> TRUE],
                         call.thresh).ok = ret.ok

ClipShrinks ==
    call.kind = "clip"
    => /\ \A p \in DOMAIN ret.ok : ret'.ok[p] => ret.ok[p]
       /\ \/ cpc = "while" /\ cpc' = "while" /\ ret'.npass = ret.npass + 1
          \/ cpc = "while" /\ cpc' = "exit" /\ ret' = ret

\* C27: the loop of the clipped mean ends for every non-empty set of sky
\* pixels: every step is a pass, which is counted, or the exit, one of the
\* two can always be taken, and there are at most one pass per pixel plus
\* one, the accepted set never growing; when it ends every accepted pixel
\* lies within thresh * stddev of the mean of the accepted set, so that one
\* more pass rejects nothing.
C27_ClipEndsAtFixedPoint ==
    /\ []ClipBounded
    /\ [][ClipShrinks]_vars

\* C27: the sky 0, 1, 0, 1, 0, 10 clipped at 2 sigma lost the 10 in the
\* first pass and nothing in the second, and the loop was left with five
\* pixels accepted
C27_Witness ==
    /\ ClipDone
    /\ call.dsky = <<0, 1, 0, 1, 0, 10>> /\ call.thresh = 2
    /\ ret.npass = 2
    /\ ret.ok = <<TRUE, TRUE, TRUE, TRUE, TRUE, FALSE>>

\* C27: a sky of one value was rejected whole in the first pass, and the
\* loop was left after the second with no pixel accepted
C27_WitnessFlat ==
    /\ ClipDone
    /\ call.dsky = <<1, 1, 1>>
    /\ ret.npass = 2
    /\ ret.ok = <<FALSE, FALSE, FALSE>>

\* the radii of all the apertures
AllRadii(apers) == [l \in LabelSet |-> Radii(apers[l])]

\* the apertures as extractFlux leaves them when it re-sizes those it is given
SizedFrom(rf, apers, st) ==
    [l \in LabelSet |->
        IF ResizeBranch(rf, st.mfwhm) = "variable"
        THEN ResizeVariable(apers[l], rf, st.mfwhm)
        ELSE IF ResizeBranch(rf, st.mfwhm) = "fixed" THEN ResizeFixed(apers[l], rf)
        ELSE apers[l]]

\* res holds one tuple per frame that has been through the loop, in the
\* order of the frames, the i-th with the i-th frame number and the results
\* of the i-th call of extractFlux
ListInOrder ==
    /\ Len(res) = IF epc = "raised" THEN nproc - 1 ELSE nproc
    /\ \A i \in DOMAIN res : res[i].nframe = InFrames[i] /\ res[i].results = i
    /\ epc = "returned" => Len(res) >= 1

\* a turn of the loop is moveApers, then extractFlux on the store that
\* moveApers left and on the apertures with the radii the frames before
\* left, then the tuple of the frame appended after those already there
TurnInOrder ==
    /\ epc = "move"
       => /\ epc' \in {"extract", "returned"}
          /\ nproc' = nproc /\ res' = res
          /\ AllRadii(ccdaper') = AllRadii(ccdaper)
    /\ epc = "extract"
       => /\ epc' \in {"move", "raised"}
          /\ nproc' = nproc + 1
          /\ store' = store
          /\ ccdaper' \in {ccdaper, SizedFrom(rfile, ccdaper, store)}
          /\ epc' = "move" => /\ Len(res') = Len(res) + 1
                              /\ SubSeq(res', 1, Len(res)) = res
                              /\ res'[Len(res')].nframe = InFrames[nproc']
    /\ epc \in {"move", "extract"}

\* C28: ccdproc takes the frames of a CCD in the order given, for each
\* frame moveApers first and the extraction after it, frame k working on
\* the store and the aperture radii that frames 1..k-1 left, and the list
\* it returns has one tuple per frame in the order of the frames, the i-th
\* with the i-th frame number.
C28_FramesInOrder ==
    /\ []ListInOrder
    /\ [][TurnInOrder]_vars

\* C28: two frames were returned as numbers 5 and 6; the second came with
\* no FWHM, so that its extraction did not re-size and worked with the
\* target radius that the first frame had set
C28_Witness ==
    /\ epc = "returned"
    /\ Len(res) = 2 /\ res[1].nframe = 5 /\ res[2].nframe = 6
    /\ store.mfwhm = -1
    /\ ccdaper["1"].rtarg # InitApers["1"].rtarg

\* C29: what a tuple already in res reports as store and as apertures is
\* not altered by the frames that follow, so that in the list returned
\* frame k's tuple holds the values as they were right after frame k.
C29_TuplesKeepFrameState ==
    [][\A k \in DOMAIN res :
          /\ Deref(res[k].store)' = Deref(res[k].store)
          /\ Deref(res[k].ccdaper)' = Deref(res[k].ccdaper)]_vars

\* C30: with the clipped mean, nrej of an extracted aperture is the number
\* of sky pixels rejected over all the passes of the clipping, so that
\* nsky + nrej is the number of pixels selected as sky.
C30_NrejCountsAllRejected ==
    (/\ Extracted
     /\ rfile.method = "clipped")
    => \A l \in LabelSet :
         (eresults[l].flag \cap NO_EXTRACTION = {})
         => eresults[l].nsky + eresults[l].nrej
              = Count(SkySelect(ccdaper[l], SubWindowOf(ccdaper[l], wdata)))

(***************************************************************************)
(* Specifications                                                          *)
(***************************************************************************)
SpecReduce ==
    /\ InitReduce
    /\ [][NextReduce]_vars

SpecExtract ==
    /\ InitExtract
    /\ [][NextExtract]_vars

SpecTaper ==
    /\ InitTaper
    /\ [][NextTaper]_vars

SpecWindow ==
    /\ InitWindow
    /\ [][NextWindow]_vars

SpecWindat ==
    /\ InitWindat
    /\ [][NextWindat]_vars

SpecClip ==
    /\ InitClip
    /\ [][NextClip]_vars

SpecSource ==
    /\ InitSource
    /\ [][DataSourceCall]_vars

=============================================================================
